---- MODULE Spec2Model ----
(***************************************************************************)
(* claude-persona: the hook handler (coordinator), the nagger's            *)
(* coordinator side (startNagger / cancelNagger) and the detached          *)
(* nag-worker process, as they coordinate through the per-session nag      *)
(* state file.                                                             *)
(*                                                                         *)
(* Time is the wall clock (Date.now()) in units of 10 seconds: the nag     *)
(* worker's MAX_LIFETIME_MS of 10 minutes is 60 units, the handler's       *)
(* default schedule [30, 60, 120] seconds is <<3, 6, 12>>.                 *)
(***************************************************************************)
EXTENDS Integers, Sequences, FiniteSets, TLC

VARIABLES
    persona,   \* the persona.json loaded by the handler (fixed per behaviour)
    now,       \* wall clock, Date.now(), in units of 10 s
    nagFile,   \* nag state file per session key: <<>> (absent) or <<NagState>>
    worker,    \* the nag-worker processes, one per fork of startNagger
    spawned,   \* number of workers forked so far
    out,       \* the handler invocation in progress: its input, log entries, playback
    stamps,    \* the spam timestamp store (claude-persona-stamps.json)
    flagStamp, \* the flag fingerprint record: <<>> (absent) or <<fingerprint>>
    api,       \* the latest direct call of an exported nagger.ts function
    hist       \* history of each campaign (observation only, never read by the program)

vars == <<persona, now, nagFile, worker, spawned, out, stamps, flagStamp, api, hist>>

---------------------------------------------------------------------------
(* Bounds of the model *)

MaxCampaigns == 2     \* startNagger calls that fork a worker
MaxTime == 62         \* the clock stops advancing here
MaxDelay == 0         \* how late a timer, a process start or a playback may complete
MaxEventTime == 1     \* hook events arrive while the clock is at most this
MaxCalls == 2         \* direct calls of startNagger / cancelNagger

MaxPrompts == 4       \* checkSpam calls, or UserPromptSubmit events, in one behaviour
MaxSpamTime == 4      \* the clock of the spam detector's callers stays within 0..this
MaxWindow == 3        \* largest spam window tried

MaxScans == 3         \* scanForFlags calls in one behaviour

(* Program constants *)

MAX_LIFETIME == 60    \* MAX_LIFETIME_MS = 10 * 60 * 1000 ms

DefaultTimeouts == <<3, 6, 12>>   \* nagCfg.timeouts ?? [30, 60, 120]

DEFAULT_SPAM_WINDOW_MS == 1    \* 10_000 ms

DEFAULT_SPAM_THRESHOLD == 5

---------------------------------------------------------------------------
(* Persona configuration *)

\* a Situation of persona.json; hasX says whether the optional field X is present
Sit(n, t, s, h, to) ==
    [name |-> n, trigger |-> t, sounds |-> s, hasTimeouts |-> h, timeouts |-> to,
     hasSpamThreshold |-> FALSE, spamThreshold |-> 0,
     hasSpamWindowMs |-> FALSE, spamWindowMs |-> 0]

\* permission_timeout without a timeouts field, plus the ordinary hook situations
PersonaFull ==
    [name |-> "full",
     situations |-> << Sit("notification", "Notification", <<"n.mp3">>, FALSE, <<>>),
                       Sit("permission-nag", "permission_timeout", <<"p1.mp3", "p2.mp3">>, FALSE, <<>>),
                       Sit("prompt", "UserPromptSubmit", <<"u.mp3">>, FALSE, <<>>),
                       Sit("session-end", "SessionEnd", <<"e.mp3">>, FALSE, <<>>) >>]

\* a schedule whose sum is exactly the 10-minute lifetime; two Notification situations
PersonaLong ==
    [name |-> "long",
     situations |-> << Sit("permission-nag", "permission_timeout", <<"p1.mp3">>, TRUE, <<30, 30>>),
                       Sit("notification", "Notification", <<"n.mp3">>, FALSE, <<>>),
                       Sit("notification-2", "Notification", <<"m1.mp3", "m2.mp3">>, FALSE, <<>>) >>]

\* a schedule whose sum is past the 10-minute lifetime
PersonaOver ==
    [name |-> "over",
     situations |-> << Sit("permission-nag", "permission_timeout", <<"p1.mp3">>, TRUE, <<30, 31>>),
                       Sit("notification", "Notification", <<"n.mp3">>, FALSE, <<>>) >>]

\* a short explicit schedule; a second permission_timeout situation that is never used
PersonaShort ==
    [name |-> "short",
     situations |-> << Sit("permission-nag", "permission_timeout", <<"p1.mp3">>, TRUE, <<1, 2>>),
                       Sit("permission-nag-2", "permission_timeout", <<"q.mp3">>, TRUE, <<5>>),
                       Sit("notification", "Notification", <<"n.mp3">>, FALSE, <<>>) >>]

\* permission_timeout with no sounds; a Notification situation with no sounds
PersonaNoSounds ==
    [name |-> "nosounds",
     situations |-> << Sit("permission-nag", "permission_timeout", <<>>, TRUE, <<1>>),
                       Sit("notification", "Notification", <<>>, FALSE, <<>>),
                       Sit("prompt", "UserPromptSubmit", <<"u.mp3">>, FALSE, <<>>) >>]

\* permission_timeout with "timeouts": []
PersonaNoTimeouts ==
    [name |-> "notimeouts",
     situations |-> << Sit("permission-nag", "permission_timeout", <<"p1.mp3">>, TRUE, <<>>),
                       Sit("notification", "Notification", <<"n.mp3">>, FALSE, <<>>) >>]

\* no permission_timeout situation at all
PersonaPlain ==
    [name |-> "plain",
     situations |-> << Sit("notification", "Notification", <<"n.mp3">>, FALSE, <<>>),
                       Sit("prompt", "UserPromptSubmit", <<"u.mp3">>, FALSE, <<>>) >>]

\* a spam situation with its own threshold and window
SitSpam(n, s, hasThreshold, threshold, hasWindowMs, windowMs) ==
    [Sit(n, "spam", s, FALSE, <<>>) EXCEPT
        !.hasSpamThreshold = hasThreshold, !.spamThreshold = threshold,
        !.hasSpamWindowMs = hasWindowMs, !.spamWindowMs = windowMs]

\* spam on the third prompt within 20 s, two spam situations, a plain prompt
\* situation, flag situations, and a Stop situation without sounds
PersonaSpam ==
    [name |-> "spam",
     situations |-> << SitSpam("spam", <<"s1.mp3">>, TRUE, 3, TRUE, 2),
                       SitSpam("spam-2", <<"s2.mp3">>, TRUE, 1, TRUE, 1),
                       Sit("prompt", "UserPromptSubmit", <<"u1.mp3", "u2.mp3">>, FALSE, <<>>),
                       Sit("done", "flag", <<"d1.mp3", "d2.mp3">>, FALSE, <<>>),
                       Sit("error", "flag", <<>>, FALSE, <<>>),
                       Sit("stop", "Stop", <<>>, FALSE, <<>>) >>]

\* a spam situation with the default threshold and window, a plain prompt situation
PersonaSpamDefault ==
    [name |-> "spamdefault",
     situations |-> << Sit("prompt", "UserPromptSubmit", <<"u1.mp3">>, FALSE, <<>>),
                       Sit("spam", "spam", <<"s1.mp3">>, FALSE, <<>>),
                       Sit("done", "flag", <<"d1.mp3">>, FALSE, <<>>) >>]

\* a nagger of one tick, a spam situation, a prompt situation and two flags
PersonaAll ==
    [name |-> "all",
     situations |-> << Sit("permission-nag", "permission_timeout", <<"p1.mp3">>, TRUE, <<1>>),
                       SitSpam("spam", <<"s1.mp3">>, TRUE, 2, TRUE, 2),
                       Sit("prompt", "UserPromptSubmit", <<"u1.mp3">>, FALSE, <<>>),
                       Sit("done", "flag", <<"d1.mp3", "d2.mp3">>, FALSE, <<>>),
                       Sit("error", "flag", <<>>, FALSE, <<>>) >>]

\* two Stop situations, the first with two sounds, and a Notification situation
PersonaStop ==
    [name |-> "stop",
     situations |-> << Sit("stop", "Stop", <<"a.mp3", "b.mp3">>, FALSE, <<>>),
                       Sit("stop-2", "Stop", <<"c.mp3">>, FALSE, <<>>),
                       Sit("notification", "Notification", <<"n.mp3">>, FALSE, <<>>) >>]

\* personas of the resolver without a nagger
ResolverPersonas == {PersonaSpam, PersonaSpamDefault, PersonaPlain, PersonaStop}

\* personas whose campaigns are short
Personas == {PersonaShort, PersonaNoSounds, PersonaNoTimeouts, PersonaPlain}

\* personas whose campaigns approach the worker's maximum lifetime
LongPersonas == {PersonaFull, PersonaLong, PersonaOver}

\* as getSituationsForTrigger, but every situation is returned when none matches
getSituationsForTrigger_Fallback(config, trigger) ==
    LET match(s) == s.trigger = trigger
        found == SelectSeq(config.situations, match)
    IN IF Len(found) = 0 THEN config.situations ELSE found

getSituationsForTrigger(config, trigger) ==
    LET match(s) == s.trigger = trigger IN SelectSeq(config.situations, match)

hasPermissionTimeoutSituation(config) ==
    \E i \in 1..Len(config.situations) : config.situations[i].trigger = "permission_timeout"

\* as hasSpamSituation, but no spam situation is ever seen
hasSpamSituation_Never(config) == FALSE

hasSpamSituation(config) ==
    \E i \in 1..Len(config.situations) : config.situations[i].trigger = "spam"

getFlagNames(config) ==
    LET isFlag(s) == s.trigger = "flag"
        flagged == SelectSeq(config.situations, isFlag)
    IN [i \in 1..Len(flagged) |-> flagged[i].name]

\* path.join(personaDir, 'sounds', soundFile)
resolveSoundPath(personaDir, soundFile) == <<personaDir, "sounds", soundFile>>

\* path.join(configDir, 'personas', personaName)
resolvePersonaDir(personaName) == <<"personas", personaName>>

\* situation.sounds.map((s) => resolveSoundPath(personaDir, s))
SoundPaths(personaDir, sounds) ==
    [i \in 1..Len(sounds) |-> resolveSoundPath(personaDir, sounds[i])]

\* as RandomIndex, but the first index is always returned
RandomIndex_First(arr) == IF Len(arr) = 0 THEN {} ELSE {1}

\* what randomElement / pickRandom may return an index of: any index of arr
RandomIndex(arr) == 1..Len(arr)

---------------------------------------------------------------------------
(* The nag state file and the coordinator side of the nagger (nagger.ts) *)

SessionIds == {"s1", "", "unknown"}     \* hookInput.session_id, possibly empty

\* const sessionId = hookInput.session_id || 'unknown'
SessionKey(sid) == IF sid = "" THEN "unknown" ELSE sid

\* nagStatePath(sessionId): one file per session id
Keys == {SessionKey(sid) : sid \in SessionIds}

Campaigns == 1..MaxCampaigns

NagState(soundPaths, timeouts, startedAt) ==
    [soundPaths |-> soundPaths, timeouts |-> timeouts, startedAt |-> startedAt,
     terminalPid |-> "null"]

\* as startNaggerActs, but only the sound list is looked at
startNaggerActs_SoundsOnly(soundPaths, timeouts) == ~(Len(soundPaths) = 0)

\* startNagger returns before writing or forking when either list is empty
startNaggerActs(soundPaths, timeouts) == ~(Len(soundPaths) = 0 \/ Len(timeouts) = 0)

\* fs.writeFileSync(statePath, JSON.stringify(state)) of startNagger
startNaggerFile(files, key, soundPaths, timeouts, t) ==
    IF startNaggerActs(soundPaths, timeouts)
    THEN [files EXCEPT ![key] = <<NagState(soundPaths, timeouts, t)>>]
    ELSE files

\* as cancelNagger, but a missing state file is created
cancelNagger_Toggle(files, key) ==
    IF files[key] # <<>> THEN [files EXCEPT ![key] = <<>>]
    ELSE [files EXCEPT ![key] = <<NagState(<<>>, <<>>, 0)>>]

\* as cancelNagger, but the state files of all sessions are removed
cancelNagger_AllKeys(files, key) == [k \in DOMAIN files |-> <<>>]

\* as cancelNagger, but the state file is left in place
cancelNagger_Keep(files, key) == files

\* cancelNagger: unlink the state file when it exists
cancelNagger(files, key) ==
    IF files[key] # <<>> THEN [files EXCEPT ![key] = <<>>] ELSE files

\* the worker process just forked by startNagger, given the state file's path.
\* pc is its position in main; exit names the process.exit it left through.
\* Observation only: ticks is the number of timeouts it read at startup,
\* sawMissing / sawLate the number of reminders it had played when a tick's check
\* found the state file missing / the deadline passed (-1: never), latePlay
\* whether it played after its campaign was superseded, slept the sum of the
\* intervals it had slept through at its latest tick check (a late timer only
\* adds to the time spent).
Forked(key, t) ==
    [pc |-> "boot", statePath |-> key, state |-> <<>>, i |-> 0, due |-> t,
     played |-> 0, sound |-> <<>>, checkAt |-> -1, exit |-> "",
     ticks |-> 0, sawMissing |-> -1, sawLate |-> -1, latePlay |-> FALSE,
     slept |-> 0]

NoWorker ==
    [pc |-> "unborn", statePath |-> "unknown", state |-> <<>>, i |-> 0, due |-> 0,
     played |-> 0, sound |-> <<>>, checkAt |-> -1, exit |-> "",
     ticks |-> 0, sawMissing |-> -1, sawLate |-> -1, latePlay |-> FALSE,
     slept |-> 0]

\* a worker that left through process.exit: its memory is gone, what it did remains
Exited(w, why) ==
    [NoWorker EXCEPT !.pc = "done", !.statePath = w.statePath, !.played = w.played,
                     !.exit = why, !.ticks = w.ticks, !.sawMissing = w.sawMissing,
                     !.sawLate = w.sawLate, !.latePlay = w.latePlay,
                     !.slept = w.slept]

\* fork(workerPath, [statePath], {detached: true}) of startNagger
startNaggerFork(workers, n, key, soundPaths, timeouts, t) ==
    IF startNaggerActs(soundPaths, timeouts)
    THEN [workers EXCEPT ![n + 1] = Forked(key, t)]
    ELSE workers

---------------------------------------------------------------------------
(* History of the campaigns: written by the actions, read only by the      *)
(* properties.                                                             *)

NoCampaign ==
    [started |-> FALSE, key |-> "unknown", timeouts |-> <<>>, startedAt |-> 0,
     cancelled |-> FALSE, cancelK |-> -1, restarted |-> FALSE, superseded |-> FALSE,
     unlinkedBy |-> 0]

\* prompts observes the UserPromptSubmit events handled with a spam situation
\* configured: how many, the instant of the first, and whether each came less than
\* the configured window after the first
NoHist ==
    [camp |-> [c \in Campaigns |-> NoCampaign], owner |-> [k \in Keys |-> 0],
     prompts |-> [n |-> 0, first |-> 0, inRun |-> TRUE]]

\* the coordinator removed the state file of the campaign that owns key
HistCancel(h, workers, key) ==
    LET c == h.owner[key] IN
    IF c = 0 THEN h
    ELSE [h EXCEPT !.owner[key] = 0,
                   !.camp[c].cancelled = TRUE,
                   !.camp[c].cancelK =
                       IF workers[c].pc = "checked" THEN -1 ELSE workers[c].played]

\* campaign c was started on key; prev is the campaign whose file was there when
\* the coordinator began (0 if none)
HistStart(h, key, c, timeouts, t, prev) ==
    [h EXCEPT !.owner[key] = c,
              !.camp = [d \in Campaigns |->
                  IF d = c
                  THEN [NoCampaign EXCEPT !.started = TRUE, !.key = key,
                                          !.timeouts = timeouts, !.startedAt = t]
                  ELSE IF h.camp[d].started /\ h.camp[d].key = key
                  THEN [h.camp[d] EXCEPT !.restarted = TRUE,
                                         !.superseded = (@ \/ d = prev)]
                  ELSE h.camp[d]]]

\* the resolver handled event at instant t under config
HistPrompt(h, config, event, t) ==
    LET isSpam(x) == x.trigger = "spam"
        spamSituations == SelectSeq(config.situations, isSpam)
        windowMs == IF spamSituations[1].hasSpamWindowMs
                    THEN spamSituations[1].spamWindowMs ELSE DEFAULT_SPAM_WINDOW_MS
    IN IF event = "UserPromptSubmit" /\ Len(spamSituations) > 0
       THEN [h EXCEPT !.prompts =
                [n |-> @.n + 1,
                 first |-> IF @.n = 0 THEN t ELSE @.first,
                 inRun |-> (@.inRun /\ (@.n = 0 \/ t - @.first < windowMs))]]
       ELSE h

\* worker w unlinked the state file at key on completing
HistUnlink(h, key, w) ==
    LET c == h.owner[key] IN
    IF c = 0 THEN h
    ELSE [h EXCEPT !.owner[key] = 0, !.camp[c].unlinkedBy = w]

---------------------------------------------------------------------------
(* The nag worker (nag-worker.ts main): one process per fork *)

Alive(w) == w.pc \in {"boot", "sleep", "checked", "playing"}

\* const deadline = startedAt + MAX_LIFETIME_MS
Deadline(w) == w.state[1].startedAt + MAX_LIFETIME

\* as workerCleanup, but the file is emptied instead of unlinked
workerCleanup_Rewrite(files, key) ==
    IF files[key] # <<>> THEN [files EXCEPT ![key] = <<NagState(<<>>, <<>>, 0)>>] ELSE files

\* if (fs.existsSync(statePath)) fs.unlinkSync(statePath), after the last tick
workerCleanup(files, key) ==
    IF files[key] # <<>> THEN [files EXCEPT ![key] = <<>>] ELSE files

\* Startup: read and parse the state file; exit when it cannot be read or lists
\* no sounds or no timeouts; otherwise enter the loop and sleep the first interval.
Booted(w, file, t) ==
    IF \/ file = <<>>
       \/ Len(file[1].soundPaths) = 0
       \/ Len(file[1].timeouts) = 0
    THEN Exited(w, "unreadable")
    ELSE [w EXCEPT !.pc = "sleep", !.state = file, !.i = 1,
                   !.due = t + file[1].timeouts[1], !.ticks = Len(file[1].timeouts)]

WorkerBoot(c) ==
    /\ worker[c].pc = "boot"
    /\ worker' = [worker EXCEPT ![c] = Booted(@, nagFile[@.statePath], now)]
    /\ UNCHANGED <<persona, now, nagFile, spawned, out, stamps, flagStamp, api, hist>>

\* as Checked, but the state file's existence is not looked at
Checked_IgnoreMissing(w, file, t) ==
    IF t > w.state[1].startedAt + MAX_LIFETIME THEN Exited(w, "deadline")
    ELSE [w EXCEPT !.pc = "checked", !.checkAt = t]

\* as Checked, but the deadline is not looked at
Checked_NoDeadline(w, file, t) ==
    IF file = <<>> THEN Exited(w, "cancelled")
    ELSE [w EXCEPT !.pc = "checked", !.checkAt = t]

\* After the sleep: exit if the state file is gone, exit if past the deadline,
\* otherwise go on to play.
Checked(w, file, t) ==
    IF file = <<>> THEN Exited(w, "cancelled")
    ELSE IF t > Deadline(w) THEN Exited(w, "deadline")
    ELSE [w EXCEPT !.pc = "checked", !.checkAt = t]

WorkerCheck(c) ==
    /\ worker[c].pc = "sleep"
    /\ now >= worker[c].due
    /\ LET w == worker[c]
           file == nagFile[w.statePath]
       IN worker' = [worker EXCEPT ![c] =
              [Checked(w, file, now) EXCEPT
                  !.sawMissing = IF file = <<>> /\ w.sawMissing < 0
                                 THEN w.played ELSE w.sawMissing,
                  !.sawLate = IF now > w.state[1].startedAt + MAX_LIFETIME /\ w.sawLate < 0
                              THEN w.played ELSE w.sawLate,
                  !.slept = w.slept + w.state[1].timeouts[w.i]]]
    /\ UNCHANGED <<persona, now, nagFile, spawned, out, stamps, flagStamp, api, hist>>

\* playFile(pickRandom(soundPaths), volume) is called
WorkerPlay(c) ==
    /\ worker[c].pc = "checked"
    /\ \E k \in RandomIndex(worker[c].state[1].soundPaths) :
           worker' = [worker EXCEPT ![c] =
               [@ EXCEPT !.pc = "playing", !.played = @ + 1, !.due = now,
                         !.sound = <<worker[c].state[1].soundPaths[k]>>,
                         !.latePlay = (@ \/ hist.camp[c].superseded)]]
    /\ UNCHANGED <<persona, now, nagFile, spawned, out, stamps, flagStamp, api, hist>>

\* as WorkerPlayDone, but the loop index does not advance
WorkerPlayDone_Again(c) ==
    /\ worker[c].pc = "playing"
    /\ worker' = [worker EXCEPT ![c] =
           [@ EXCEPT !.pc = "sleep", !.sound = <<>>,
                     !.due = now + worker[c].state[1].timeouts[worker[c].i]]]
    /\ UNCHANGED <<persona, now, nagFile, spawned, out, stamps, flagStamp, api, hist>>

\* The playback completes: sleep the next interval, or, after the last one,
\* unlink the state file if it exists and exit.
WorkerPlayDone(c) ==
    /\ worker[c].pc = "playing"
    /\ LET w == worker[c]
           more == w.i < Len(w.state[1].timeouts)
       IN /\ worker' = [worker EXCEPT ![c] =
                 IF more
                 THEN [@ EXCEPT !.pc = "sleep", !.i = @ + 1, !.sound = <<>>,
                                !.due = now + w.state[1].timeouts[w.i + 1]]
                 ELSE Exited(@, "completed")]
          /\ nagFile' = IF more THEN nagFile ELSE workerCleanup(nagFile, w.statePath)
          /\ hist' = IF more THEN hist ELSE HistUnlink(hist, w.statePath, c)
    /\ UNCHANGED <<persona, now, spawned, out, stamps, flagStamp, api>>

\* The clock advances, as long as a hook event can still arrive or a worker is
\* alive. A handler invocation ends within its 5 s safety timer, the worker goes
\* from its check to playFile without waiting, and a process start, a timer or a
\* playback completes at most MaxDelay late.
Tick ==
    /\ now < MaxTime
    /\ ~out.active
    /\ now < MaxEventTime \/ \E c \in Campaigns : Alive(worker[c])
    /\ \A c \in Campaigns :
           /\ worker[c].pc # "checked"
           /\ worker[c].pc \in {"boot", "sleep", "playing"} => now < worker[c].due + MaxDelay
    /\ now' = now + 1
    /\ UNCHANGED <<persona, nagFile, worker, spawned, out, stamps, flagStamp, api, hist>>

---------------------------------------------------------------------------
(* The spam detector (spam-detector.ts) *)

\* getTimestamps().filter((t) => now - t < windowMs), then push(now)
checkSpamStamps(store, t, windowMs) ==
    LET fresh(x) == t - x < windowMs IN Append(SelectSeq(store, fresh), t)

\* as checkSpam, but the count has to exceed the threshold
checkSpam_Over(store, t, threshold, windowMs) ==
    Len(checkSpamStamps(store, t, windowMs)) > threshold

\* return stamps.length >= threshold
checkSpam(store, t, threshold, windowMs) ==
    Len(checkSpamStamps(store, t, windowMs)) >= threshold

---------------------------------------------------------------------------
(* The flag scanner (flag-scanner.ts). An assistant text is given by what   *)
(* the scanner reads of it: its length, its first and last 64 characters,   *)
(* and the tokens of the markers FLAG_PATTERN finds in it, left to right.   *)
(* A token is the whole run of non-whitespace characters FLAG_PATTERN takes  *)
(* after "persona:", so markers written with no whitespace between them run *)
(* together into one token, listed here as the pattern finds it.            *)

Text(len, head, tail, markers) ==
    [length |-> len, head |-> head, tail |-> tail, markers |-> markers]

EmptyText == Text(0, "", "", <<>>)

NoTranscript == [hasPath |-> FALSE, exists |-> FALSE, lines |-> <<>>]

\* as makeFingerprint, but only the last 64 characters are taken
makeFingerprint_Tail(text) == <<0, "", text.tail>>

\* as makeFingerprint, but the markers in the middle of the text are taken too
makeFingerprint_Middle(text) == <<text.length, text.head, text.tail, text.markers>>

\* `${text.length}:${text.slice(0, 64)}:${text.slice(-64)}`
makeFingerprint(text) == <<text.length, text.head, text.tail>>

\* as LastAssistant, but the role of the entry is not looked at
LastAssistant_AnyRole(lines, i) ==
    LET parsed == {k \in 1..i : lines[k].parses} IN
    IF parsed = {} THEN EmptyText
    ELSE lines[CHOOSE k \in parsed : \A m \in parsed : m <= k].text

\* the last line, from the end, that parses and has role assistant decides
RECURSIVE LastAssistant(_, _)
LastAssistant(lines, i) ==
    IF i = 0 THEN EmptyText
    ELSE IF lines[i].parses /\ lines[i].role = "assistant" THEN lines[i].text
    ELSE LastAssistant(lines, i - 1)

extractLastAssistantText(transcript) ==
    IF ~transcript.hasPath \/ ~transcript.exists THEN EmptyText
    ELSE LastAssistant(transcript.lines, Len(transcript.lines))

\* as FirstValid, but the last marker with a valid token wins
FirstValid_Last(markers, validFlags, i) ==
    LET valid == {k \in i..Len(markers) :
                     \E j \in 1..Len(validFlags) : validFlags[j] = markers[k]}
    IN IF valid = {} THEN <<>>
       ELSE <<markers[CHOOSE k \in valid : \A m \in valid : m <= k]>>

\* the first marker whose token is a valid flag: <<>> or <<token>>
RECURSIVE FirstValid(_, _, _)
FirstValid(markers, validFlags, i) ==
    IF i > Len(markers) THEN <<>>
    ELSE IF \E j \in 1..Len(validFlags) : validFlags[j] = markers[i] THEN <<markers[i]>>
    ELSE FirstValid(markers, validFlags, i + 1)

\* as scanForFlags, but the stored fingerprint is not compared
scanForFlags_NoDedup(validFlags, lastAssistantMessage, transcript, stamp) ==
    LET text == IF lastAssistantMessage.length > 0 THEN lastAssistantMessage
                ELSE extractLastAssistantText(transcript)
        flagName == FirstValid(text.markers, validFlags, 1)
    IN IF text.length = 0 \/ flagName = <<>> THEN [flag |-> <<>>, stamp |-> stamp]
       ELSE [flag |-> flagName, stamp |-> <<makeFingerprint(text)>>]

\* as scanForFlags, but the fingerprint of a new match is not saved
scanForFlags_NoSave(validFlags, lastAssistantMessage, transcript, stamp) ==
    LET text == IF lastAssistantMessage.length > 0 THEN lastAssistantMessage
                ELSE extractLastAssistantText(transcript)
        flagName == FirstValid(text.markers, validFlags, 1)
    IN IF text.length = 0 \/ flagName = <<>> THEN [flag |-> <<>>, stamp |-> stamp]
       ELSE IF stamp # <<>> /\ stamp[1] = makeFingerprint(text)
       THEN [flag |-> <<>>, stamp |-> stamp]
       ELSE [flag |-> flagName, stamp |-> stamp]

\* The fingerprint file is <<>> when it is missing, <<fingerprint>> when it holds
\* a record, and <<NoFingerprint, kind>> when it holds something else.
\* NoFingerprint stands for the undefined fingerprint of such content: no text is
\* fingerprinted to it, since a text of length 0 is never fingerprinted.
NoFingerprint == <<0, "", "">>

\* the file holds text that JSON.parse rejects
UnparseableStamp == <<NoFingerprint, "unparseable">>

\* the file holds JSON that has no fingerprint, such as {}
ForeignStamp == <<NoFingerprint, "no fingerprint">>

\* loadFlagStamp: <<>> for null, else <<the fingerprint of what was parsed>>
loadFlagStamp(file) ==
    IF file = <<>> THEN <<>>
    ELSE IF Len(file) = 2 /\ file[2] = "unparseable" THEN <<>>
    ELSE <<file[1]>>

\* as scanForFlags, but the fingerprint of a text without a valid flag is saved too
scanForFlags_SaveAlways(validFlags, lastAssistantMessage, transcript, stamp) ==
    LET text == IF lastAssistantMessage.length > 0 THEN lastAssistantMessage
                ELSE extractLastAssistantText(transcript)
        flagName == FirstValid(text.markers, validFlags, 1)
        fingerprint == makeFingerprint(text)
        loaded == loadFlagStamp(stamp)
    IN IF text.length = 0 THEN [flag |-> <<>>, stamp |-> stamp]
       ELSE IF flagName = <<>> THEN [flag |-> <<>>, stamp |-> <<fingerprint>>]
       ELSE IF loaded # <<>> /\ loaded[1] = fingerprint THEN [flag |-> <<>>, stamp |-> stamp]
       ELSE [flag |-> flagName, stamp |-> <<fingerprint>>]

\* as scanForFlags, but the transcript is read first and the message only without it
scanForFlags_TranscriptFirst(validFlags, lastAssistantMessage, transcript, stamp) ==
    LET fromFile == extractLastAssistantText(transcript)
        text == IF fromFile.length > 0 THEN fromFile ELSE lastAssistantMessage
        flagName == FirstValid(text.markers, validFlags, 1)
        fingerprint == makeFingerprint(text)
        loaded == loadFlagStamp(stamp)
    IN IF text.length = 0 THEN [flag |-> <<>>, stamp |-> stamp]
       ELSE IF flagName = <<>> THEN [flag |-> <<>>, stamp |-> stamp]
       ELSE IF loaded # <<>> /\ loaded[1] = fingerprint THEN [flag |-> <<>>, stamp |-> stamp]
       ELSE [flag |-> flagName, stamp |-> <<fingerprint>>]

\* as scanForFlags, but a file that holds no record is left as it is
scanForFlags_KeepCorrupt(validFlags, lastAssistantMessage, transcript, stamp) ==
    LET text == IF lastAssistantMessage.length > 0 THEN lastAssistantMessage
                ELSE extractLastAssistantText(transcript)
        flagName == FirstValid(text.markers, validFlags, 1)
        fingerprint == makeFingerprint(text)
        loaded == loadFlagStamp(stamp)
    IN IF text.length = 0 THEN [flag |-> <<>>, stamp |-> stamp]
       ELSE IF flagName = <<>> THEN [flag |-> <<>>, stamp |-> stamp]
       ELSE IF loaded # <<>> /\ loaded[1] = fingerprint THEN [flag |-> <<>>, stamp |-> stamp]
       ELSE [flag |-> flagName,
             stamp |-> IF Len(stamp) = 2 THEN stamp ELSE <<fingerprint>>]

\* scanForFlags: [flag |-> <<>> or <<name>>, stamp |-> the file afterwards]
scanForFlags(validFlags, lastAssistantMessage, transcript, stamp) ==
    LET text == IF lastAssistantMessage.length > 0 THEN lastAssistantMessage
                ELSE extractLastAssistantText(transcript)
        flagName == FirstValid(text.markers, validFlags, 1)
        fingerprint == makeFingerprint(text)
        loaded == loadFlagStamp(stamp)
    IN IF text.length = 0 THEN [flag |-> <<>>, stamp |-> stamp]
       ELSE IF flagName = <<>> THEN [flag |-> <<>>, stamp |-> stamp]
       ELSE IF loaded # <<>> /\ loaded[1] = fingerprint THEN [flag |-> <<>>, stamp |-> stamp]
       ELSE [flag |-> flagName, stamp |-> <<fingerprint>>]

---------------------------------------------------------------------------
(* The hook handler (handler.ts main): one invocation per hook event *)

Events == {"Notification", "UserPromptSubmit", "SessionEnd", "Stop"}

\* hookInput.notification_type: present on Notification events only
NotificationTypesOf(event) ==
    IF event = "Notification" THEN {"permission_prompt", "idle_prompt"} ELSE {""}

\* what the handler is given to load: the --config argument, active.json and the
\* persona.json it points to. situations is "missing", "empty" or "list".
GoodConfig ==
    [hasArg |-> TRUE,
     active |-> [exists |-> TRUE, parses |-> TRUE, hasPersona |-> TRUE],
     personaFile |-> [exists |-> TRUE, parses |-> TRUE, hasName |-> TRUE,
                      situations |-> "list"]]

ConfigCases ==
    {GoodConfig,
     [GoodConfig EXCEPT !.hasArg = FALSE],
     [GoodConfig EXCEPT !.active.exists = FALSE],
     [GoodConfig EXCEPT !.active.parses = FALSE],
     [GoodConfig EXCEPT !.active.hasPersona = FALSE],
     [GoodConfig EXCEPT !.personaFile.exists = FALSE],
     [GoodConfig EXCEPT !.personaFile.parses = FALSE],
     [GoodConfig EXCEPT !.personaFile.hasName = FALSE],
     [GoodConfig EXCEPT !.personaFile.situations = "missing"],
     [GoodConfig EXCEPT !.personaFile.situations = "empty"]}

\* loadActiveConfig returns (TRUE) or throws (FALSE)
loadActiveConfig(file) == file.exists /\ file.parses /\ file.hasPersona

\* as loadPersonaConfig, but an empty situations array is accepted
loadPersonaConfig_AllowEmpty(file) ==
    file.exists /\ file.parses /\ file.hasName /\ file.situations # "missing"

\* loadPersonaConfig returns (TRUE) or throws (FALSE)
loadPersonaConfig(file) ==
    file.exists /\ file.parses /\ file.hasName /\ file.situations = "list"

\* main gets past the --config check and the try block that loads both files
ConfigLoads(config) ==
    /\ config.hasArg
    /\ loadActiveConfig(config.active)
    /\ loadPersonaConfig(config.personaFile)

Idle ==
    [active |-> FALSE, loads |-> FALSE, flags |-> FALSE, event |-> "", ntype |-> "",
     sid |-> "", key |-> "unknown", nagger |-> "none", mode |-> "none", situation |-> "",
     sound |-> <<>>, code |-> 0, config |-> GoodConfig, exit |-> "",
     message |-> FALSE, transcriptPath |-> FALSE]

\* the invocation's record: its input, its log entries, the sound handed to play();
\* message and transcriptPath say whether a flag scanning invocation was given a
\* last_assistant_message and a transcript_path
Outcome(config, flags, event, ntype, sid, nagger, mode, situation, sound) ==
    [active |-> TRUE, loads |-> ConfigLoads(config), flags |-> flags, event |-> event,
     ntype |-> ntype, sid |-> sid, key |-> SessionKey(sid), nagger |-> nagger,
     mode |-> mode, situation |-> situation,
     sound |-> sound, code |-> 0, config |-> config, exit |-> "",
     message |-> FALSE, transcriptPath |-> FALSE]

\* as Pick, but the first element is always the one taken
Pick_First(arr) == IF Len(arr) = 0 THEN {<<>>} ELSE {<<arr[1]>>}

\* as Pick, but the whole of arr is taken
Pick_All(arr) == IF Len(arr) = 0 THEN {<<>>} ELSE {arr}

\* an optional element of arr, as randomElement is guarded: <<>> when arr is empty
Pick(arr) == IF Len(arr) = 0 THEN {<<>>} ELSE {<<arr[i]>> : i \in RandomIndex(arr)}

\* as getSituationByName, but the first situation is taken whatever its name
getSituationByName_First(config, name) == <<config.situations[1]>>

\* config.situations.find((s) => s.name === name): <<>> or <<situation>>
getSituationByName(config, name) ==
    LET named(x) == x.name = name
        found == SelectSeq(config.situations, named)
    IN IF Len(found) = 0 THEN <<>> ELSE <<found[1]>>

\* as NagAction, but SessionEnd does not cancel
NagAction_PromptOnly(config, event, ntype) ==
    IF ~hasPermissionTimeoutSituation(config) THEN "none"
    ELSE IF event = "Notification" /\ ntype = "permission_prompt" THEN "restart"
    ELSE IF event = "UserPromptSubmit" THEN "cancel"
    ELSE "none"

\* as NagAction, but a permission Notification only cancels
NagAction_CancelOnly(config, event, ntype) ==
    IF ~hasPermissionTimeoutSituation(config) THEN "none"
    ELSE IF event = "Notification" /\ ntype = "permission_prompt" THEN "cancel"
    ELSE IF event = "UserPromptSubmit" \/ event = "SessionEnd" THEN "cancel"
    ELSE "none"

\* as NagAction, but every Notification restarts
NagAction_AnyNotification(config, event, ntype) ==
    IF ~hasPermissionTimeoutSituation(config) THEN "none"
    ELSE IF event = "Notification" THEN "restart"
    ELSE IF event = "UserPromptSubmit" \/ event = "SessionEnd" THEN "cancel"
    ELSE "none"

\* what the nagger block does for an event: restart on a permission Notification,
\* cancel on UserPromptSubmit or SessionEnd, nothing otherwise
NagAction(config, event, ntype) ==
    IF ~hasPermissionTimeoutSituation(config) THEN "none"
    ELSE IF event = "Notification" /\ ntype = "permission_prompt" THEN "restart"
    ELSE IF event = "UserPromptSubmit" \/ event = "SessionEnd" THEN "cancel"
    ELSE "none"

\* const timeouts = nagCfg.timeouts ?? [30, 60, 120]
NagTimeouts(nagCfg) == IF nagCfg.hasTimeouts THEN nagCfg.timeouts ELSE DefaultTimeouts

\* Flag scanning mode
HandlerFlags(config, event, ntype, sid, lastAssistantMessage, transcript) ==
    LET flagNames == getFlagNames(persona)
        personaDir == resolvePersonaDir(persona.name)
        skip == Len(flagNames) = 0
                  \/ (lastAssistantMessage.length = 0 /\ ~transcript.hasPath)
        scan == scanForFlags(flagNames, lastAssistantMessage, transcript, flagStamp)
        situation == IF skip \/ scan.flag = <<>> THEN <<>>
                     ELSE getSituationByName(persona, scan.flag[1])
        soundPaths == IF situation = <<>> THEN <<>>
                      ELSE SoundPaths(personaDir, situation[1].sounds)
    IN /\ flagStamp' = IF skip THEN flagStamp ELSE scan.stamp
       /\ \E chosen \in Pick(soundPaths) :
              out' = [Outcome(config, TRUE, event, ntype, sid, "none",
                              IF chosen = <<>> THEN "none" ELSE "flag",
                              IF chosen = <<>> THEN "" ELSE situation[1].name, chosen)
                      EXCEPT !.message = lastAssistantMessage.length > 0,
                             !.transcriptPath = transcript.hasPath]
       /\ UNCHANGED <<nagFile, worker, spawned, stamps, hist>>

\* Normal mode: the nagger block, then the spam check and the situation lookup.
\* The invocation's file operations are taken in one step. A worker check that
\* falls between the unlink and the write of a restart ends that worker, as it
\* does after a cancelling event that a permission Notification follows.
HandlerResolve(config, event, ntype, sid) ==
    LET key == SessionKey(sid)
        personaDir == resolvePersonaDir(persona.name)
        act == NagAction(persona, event, ntype)
        nagCfg == getSituationsForTrigger(persona, "permission_timeout")[1]
        nagSounds == SoundPaths(personaDir, nagCfg.sounds)
        timeouts == NagTimeouts(nagCfg)
        prev == hist.owner[key]
        forks == act = "restart" /\ startNaggerActs(nagSounds, timeouts)
        files1 == IF act # "none" THEN cancelNagger(nagFile, key) ELSE nagFile
        files2 == IF act = "restart"
                  THEN startNaggerFile(files1, key, nagSounds, timeouts, now) ELSE files1
        hist1 == IF act # "none" THEN HistCancel(hist, worker, key) ELSE hist
        hist2 == IF forks THEN HistStart(hist1, key, spawned + 1, timeouts, now, prev)
                 ELSE hist1
        nagger == IF act = "restart" THEN "started"
                  ELSE IF act = "cancel" THEN "cancelled" ELSE "none"
        doSpam == event = "UserPromptSubmit" /\ hasSpamSituation(persona)
        spamSituations == getSituationsForTrigger(persona, "spam")
        spamCfg == spamSituations[1]
        threshold == IF spamCfg.hasSpamThreshold THEN spamCfg.spamThreshold
                     ELSE DEFAULT_SPAM_THRESHOLD
        windowMs == IF spamCfg.hasSpamWindowMs THEN spamCfg.spamWindowMs
                    ELSE DEFAULT_SPAM_WINDOW_MS
        isSpam == doSpam /\ checkSpam(stamps, now, threshold, windowMs)
        candidates == IF isSpam THEN spamSituations
                      ELSE getSituationsForTrigger(persona, event)
        mode == IF isSpam THEN "spam" ELSE "normal"
    IN /\ forks => spawned < MaxCampaigns
       /\ nagFile' = files2
       /\ worker' = IF act = "restart"
                    THEN startNaggerFork(worker, spawned, key, nagSounds, timeouts, now)
                    ELSE worker
       /\ spawned' = IF forks THEN spawned + 1 ELSE spawned
       /\ hist' = HistPrompt(hist2, persona, event, now)
       /\ stamps' = IF doSpam THEN checkSpamStamps(stamps, now, windowMs) ELSE stamps
       /\ \E situation \in Pick(candidates) :
              \E chosen \in Pick(IF situation = <<>> THEN <<>>
                                 ELSE SoundPaths(personaDir, situation[1].sounds)) :
                  out' = Outcome(config, FALSE, event, ntype, sid, nagger,
                                 IF situation = <<>> THEN "none" ELSE mode,
                                 IF situation = <<>> THEN "" ELSE situation[1].name,
                                 chosen)
       /\ UNCHANGED flagStamp

\* One invocation: node handler.js --event <event> [--flags] --config <path>, with
\* the hook JSON on stdin. config is what --config names and leads to.
Handler(config, flags, event, ntype, sid, lastAssistantMessage, transcript) ==
    /\ ~out.active
    /\ IF ~ConfigLoads(config)
       THEN /\ out' = Outcome(config, flags, event, ntype, sid,
                              "none", "none", "", <<>>)
            /\ UNCHANGED <<nagFile, worker, spawned, stamps, flagStamp, hist>>
       ELSE IF flags
       THEN HandlerFlags(config, event, ntype, sid, lastAssistantMessage, transcript)
       ELSE HandlerResolve(config, event, ntype, sid)
    /\ UNCHANGED <<persona, now, api>>

\* process.exit(0) once the playback was handed over (or at once when nothing plays)
HandlerExit ==
    /\ out.active
    /\ out' = Idle
    /\ UNCHANGED <<persona, now, nagFile, worker, spawned, stamps, flagStamp, api, hist>>

---------------------------------------------------------------------------
(* The system: hook events, the workers they fork, and the clock *)

\* no direct call yet; n counts the direct calls made, existed is whether the
\* state file was there when the call was made, prev and prevKey are the call
\* before it
NoCall ==
    [op |-> "none", key |-> "unknown", soundPaths |-> <<>>, timeouts |-> <<>>, n |-> 0,
     existed |-> FALSE, prev |-> "none", prevKey |-> "unknown"]

InitWith(personas) ==
    /\ persona \in personas
    /\ now = 0
    /\ nagFile = [k \in Keys |-> <<>>]
    /\ worker = [c \in Campaigns |-> NoWorker]
    /\ spawned = 0
    /\ out = Idle
    /\ stamps = <<>>
    /\ flagStamp = <<>>
    /\ api = NoCall
    /\ hist = NoHist

Init == InitWith(Personas)

\* the handler in normal mode with a configuration that loads: the resolver
Resolver(event, ntype, sid) ==
    Handler(GoodConfig, FALSE, event, ntype, sid, EmptyText, NoTranscript)

\* a hook event of normal mode for the session
HookEvent ==
    /\ now <= MaxEventTime
    /\ \E event \in Events : \E ntype \in NotificationTypesOf(event) :
           Resolver(event, ntype, "s1")

WorkerStep ==
    \/ \E c \in Campaigns : WorkerBoot(c)
    \/ \E c \in Campaigns : WorkerCheck(c)
    \/ \E c \in Campaigns : WorkerPlay(c)
    \/ \E c \in Campaigns : WorkerPlayDone(c)

Next ==
    \/ HookEvent
    \/ HandlerExit
    \/ WorkerStep
    \/ Tick

Spec == Init /\ [][Next]_vars

(* One long campaign: the personas with long schedules, hook events for one     *)
(* session at any time, and no second campaign, so that the clock can run past  *)
(* the worker's deadline.                                                       *)

InitLong == InitWith(LongPersonas)

HookEventLong ==
    \E event \in Events : \E ntype \in NotificationTypesOf(event) :
        /\ Resolver(event, ntype, "s1")
        /\ spawned' <= 1

NextLong ==
    \/ HookEventLong
    \/ HandlerExit
    \/ WorkerStep
    \/ Tick

SpecLong == InitLong /\ [][NextLong]_vars

(* Several sessions: the hook events the nagger block acts on, for any        *)
(* session id, an empty one and the literal "unknown" included.               *)

InitSessions == InitWith({PersonaShort})

HookEventSessions ==
    /\ now <= MaxEventTime
    /\ \E event \in {"Notification", "UserPromptSubmit", "SessionEnd"} :
       \E ntype \in NotificationTypesOf(event) : \E sid \in SessionIds :
           Resolver(event, ntype, sid)

NextSessions ==
    \/ HookEventSessions
    \/ HandlerExit
    \/ WorkerStep
    \/ Tick

SpecSessions == InitSessions /\ [][NextSessions]_vars

(* The exported functions of nagger.ts called directly, as the unit tests do,   *)
(* for either session key, with the workers they fork.                          *)

ApiSoundPaths == {<<>>, SoundPaths(resolvePersonaDir("short"), <<"p1.mp3">>)}

ApiTimeouts == {<<>>, <<1, 2>>}

\* startNagger(sessionId, soundPaths, timeouts)
StartNaggerCall(key, soundPaths, timeouts) ==
    LET acts == startNaggerActs(soundPaths, timeouts) IN
    /\ now <= MaxEventTime
    /\ api.n < MaxCalls
    /\ acts => spawned < MaxCampaigns
    /\ nagFile' = startNaggerFile(nagFile, key, soundPaths, timeouts, now)
    /\ worker' = startNaggerFork(worker, spawned, key, soundPaths, timeouts, now)
    /\ spawned' = IF acts THEN spawned + 1 ELSE spawned
    /\ hist' = IF acts
               THEN HistStart(hist, key, spawned + 1, timeouts, now, hist.owner[key])
               ELSE hist
    /\ api' = [op |-> "startNagger", key |-> key, soundPaths |-> soundPaths,
               timeouts |-> timeouts, n |-> api.n + 1,
               existed |-> nagFile[key] # <<>>, prev |-> api.op, prevKey |-> api.key]
    /\ UNCHANGED <<persona, now, out, stamps, flagStamp>>

\* cancelNagger(sessionId)
CancelNaggerCall(key) ==
    /\ now <= MaxEventTime
    /\ api.n < MaxCalls
    /\ nagFile' = cancelNagger(nagFile, key)
    /\ hist' = HistCancel(hist, worker, key)
    /\ api' = [op |-> "cancelNagger", key |-> key, soundPaths |-> <<>>,
               timeouts |-> <<>>, n |-> api.n + 1,
               existed |-> nagFile[key] # <<>>, prev |-> api.op, prevKey |-> api.key]
    /\ UNCHANGED <<persona, now, worker, spawned, out, stamps, flagStamp>>

InitApi == InitWith({PersonaPlain})

NextApi ==
    \/ \E key \in Keys : \E soundPaths \in ApiSoundPaths : \E timeouts \in ApiTimeouts :
           StartNaggerCall(key, soundPaths, timeouts)
    \/ \E key \in Keys : CancelNaggerCall(key)
    \/ WorkerStep
    \/ Tick

SpecApi == InitApi /\ [][NextApi]_vars

(* The resolver in every mode, for personas without a nagger: hook events in  *)
(* normal mode, Stop hooks in flag scanning mode, and invocations whose       *)
(* configuration does not load.                                               *)

InitResolver == InitWith(ResolverPersonas)

HookMessages == {EmptyText, Text(200, "head-1", "tail-1", <<"done">>),
                 Text(180, "head-4", "tail-4", <<"other", "error", "done">>)}

HookTranscripts ==
    {NoTranscript,
     [hasPath |-> TRUE, exists |-> TRUE,
      lines |-> << [parses |-> TRUE, role |-> "assistant",
                    text |-> Text(150, "head-2", "tail-2", <<"done">>)],
                   [parses |-> TRUE, role |-> "user",
                    text |-> Text(90, "head-6", "tail-6", <<"error">>)] >>]}

\* a hook event in normal mode
HookEventNormal ==
    /\ now <= MaxEventTime
    /\ hist.prompts.n < MaxPrompts
    /\ \E event \in Events : \E ntype \in NotificationTypesOf(event) :
           Resolver(event, ntype, "s1")

\* a hook event handled in flag scanning mode
HookEventFlags ==
    /\ now <= MaxEventTime
    /\ \E event \in {"Stop", "UserPromptSubmit"} :
       \E lastAssistantMessage \in HookMessages : \E transcript \in HookTranscripts :
           Handler(GoodConfig, TRUE, event, "", "s1", lastAssistantMessage, transcript)

\* a hook event whose active.json or persona.json does not load
HookEventNoConfig ==
    /\ now <= MaxEventTime
    /\ \E event \in {"UserPromptSubmit", "Stop"} : \E flags \in BOOLEAN :
       \E config \in ConfigCases :
           /\ config # GoodConfig
           /\ Handler(config, flags, event, "", "s1", EmptyText, NoTranscript)

NextResolver ==
    \/ HookEventNormal
    \/ HookEventFlags
    \/ HookEventNoConfig
    \/ HandlerExit
    \/ Tick

SpecResolver == InitResolver /\ [][NextResolver]_vars

(* Hook events whose configuration loads or fails to load, for a persona    *)
(* with a nagger and one campaign, with its worker. The spam store and the   *)
(* flag fingerprint are files of the shared temp directory: earlier          *)
(* invocations, under any persona, may have left them there.                 *)

LeftStamps == {<<>>, <<0>>}

LeftFlagStamps == {<<>>, <<makeFingerprint(Text(200, "head-1", "tail-1", <<"done">>))>>}

InitConfig ==
    /\ persona = PersonaShort
    /\ now = 0
    /\ nagFile = [k \in Keys |-> <<>>]
    /\ worker = [c \in Campaigns |-> NoWorker]
    /\ spawned = 0
    /\ out = Idle
    /\ stamps \in LeftStamps
    /\ flagStamp \in LeftFlagStamps
    /\ api = NoCall
    /\ hist = NoHist

NextConfig ==
    \/ HookEventLong
    \/ HookEventNoConfig
    \/ HandlerExit
    \/ WorkerStep
    \/ Tick

SpecConfig == InitConfig /\ [][NextConfig]_vars

(* Flag scanning invocations among the others: a persona with a nagger, a    *)
(* spam situation and flags, and one without flags, with hook events handled *)
(* in normal mode and in flag scanning mode, and the worker of a campaign.   *)

InitFlags == InitWith({PersonaAll, PersonaShort})

\* hook events in normal mode start no second campaign
NextFlags ==
    \/ HookEventNormal /\ spawned' <= 1
    \/ HookEventFlags
    \/ HandlerExit
    \/ WorkerStep
    \/ Tick

SpecFlags == InitFlags /\ [][NextFlags]_vars

(* The handler process from its start to its exit: what main awaits may     *)
(* never complete, a collaborator may throw, and the safety timer set when   *)
(* the module loads ends the process when nothing else has. An invocation    *)
(* that has exited keeps its record, with exit naming the process.exit that  *)
(* ended it.                                                                 *)

InitExit == InitWith({PersonaSpam})

\* stdin does not parse: hookInput = { session_id: '', hook_event_name: args.event }
HookEventBadStdin ==
    /\ now <= MaxEventTime
    /\ hist.prompts.n < MaxPrompts
    /\ \E event \in Events : \E flags \in BOOLEAN :
           Handler(GoodConfig, flags, event, "", "", EmptyText, NoTranscript)

\* a collaborator throws before anything was written or played (the write of
\* saveTimestamps, saveFlagStamp or startNagger fails): main's promise rejects
HookEventThrows ==
    /\ now <= MaxEventTime
    /\ ~out.active
    /\ \E event \in Events : \E flags \in BOOLEAN :
           out' = [Outcome(GoodConfig, flags, event, "", "s1",
                           "none", "none", "", <<>>) EXCEPT !.exit = "rejected"]
    /\ UNCHANGED <<persona, now, nagFile, worker, spawned, stamps, flagStamp, api, hist>>

\* main reaches one of its process.exit(0) calls: at once when nothing is handed
\* to playback, otherwise when play() resolves (and, in flag scanning mode, the
\* 1.5 s wait is over)
HandlerMainExit ==
    /\ out.active /\ out.exit = ""
    /\ out' = [out EXCEPT !.active = FALSE, !.exit = "main", !.code = 0]
    /\ UNCHANGED <<persona, now, nagFile, worker, spawned, stamps, flagStamp, api, hist>>

\* main().catch(() => process.exit(0))
HandlerCatchExit ==
    /\ out.active /\ out.exit = "rejected"
    /\ out' = [out EXCEPT !.active = FALSE, !.exit = "catch", !.code = 0]
    /\ UNCHANGED <<persona, now, nagFile, worker, spawned, stamps, flagStamp, api, hist>>

\* as HandlerSafetyTimer, but the timer is never set
HandlerSafetyTimer_Never == FALSE

\* setTimeout(() => process.exit(0), 5000)
HandlerSafetyTimer ==
    /\ out.active
    /\ out' = [out EXCEPT !.active = FALSE, !.exit = "timer", !.code = 0]
    /\ UNCHANGED <<persona, now, nagFile, worker, spawned, stamps, flagStamp, api, hist>>

NextExit ==
    \/ HookEventNormal
    \/ HookEventFlags
    \/ HookEventNoConfig
    \/ HookEventBadStdin
    \/ HookEventThrows
    \/ HandlerMainExit
    \/ HandlerCatchExit
    \/ HandlerSafetyTimer
    \/ Tick

\* the timer fires once its 5 s are over, whatever main is waiting for
SpecExit == InitExit /\ [][NextExit]_vars /\ WF_vars(HandlerSafetyTimer)

(* checkSpam called directly with one threshold and one window, as the tests  *)
(* do, on a store that is empty or seeded. The caller's clock is Date.now():  *)
(* it advances, and it can be set back.                                       *)

\* the stamp file as the behaviour finds it: missing, or seeded with old instants
SeedStores == {<<>>, <<0, 0>>}

\* no checkSpam call yet. Observation only: n counts the calls, first is the
\* instant of the first one, inRun says that the store was empty at the start and
\* every call so far came no earlier than the one before it and less than the
\* window after the first.
NoSpamCall(threshold, windowMs, store) ==
    [op |-> "none", threshold |-> threshold, windowMs |-> windowMs, at |-> 0,
     before |-> <<>>, result |-> FALSE, n |-> 0, first |-> 0,
     inRun |-> (store = <<>>)]

InitSpam ==
    /\ persona = PersonaPlain
    /\ now = 0
    /\ nagFile = [k \in Keys |-> <<>>]
    /\ worker = [c \in Campaigns |-> NoWorker]
    /\ spawned = 0
    /\ out = Idle
    /\ stamps \in SeedStores
    /\ flagStamp = <<>>
    /\ \E threshold \in 1..MaxPrompts : \E windowMs \in 0..MaxWindow :
           api = NoSpamCall(threshold, windowMs, stamps)
    /\ hist = NoHist

\* checkSpam(threshold, windowMs)
CheckSpamCall ==
    /\ api.n < MaxPrompts
    /\ stamps' = checkSpamStamps(stamps, now, api.windowMs)
    /\ api' = [api EXCEPT
           !.op = "checkSpam", !.at = now, !.before = stamps,
           !.result = checkSpam(stamps, now, api.threshold, api.windowMs),
           !.n = @ + 1,
           !.first = IF api.n = 0 THEN now ELSE @,
           !.inRun = (@ /\ (api.n = 0
                              \/ (now >= api.at /\ now - api.first < api.windowMs)))]
    /\ UNCHANGED <<persona, now, nagFile, worker, spawned, out, flagStamp, hist>>

\* time passes between two calls
SpamClockAdvance ==
    /\ now < MaxSpamTime
    /\ now' = now + 1
    /\ UNCHANGED <<persona, nagFile, worker, spawned, out, stamps, flagStamp, api, hist>>

\* the system clock is set back between two calls
SpamClockSetBack ==
    /\ \E t \in 0..(now - 1) : now' = t
    /\ UNCHANGED <<persona, nagFile, worker, spawned, out, stamps, flagStamp, api, hist>>

NextSpam ==
    \/ CheckSpamCall
    \/ SpamClockAdvance
    \/ SpamClockSetBack

SpecSpam == InitSpam /\ [][NextSpam]_vars

(* scanForFlags called directly, as the unit tests do, with a message, with a  *)
(* transcript or with both, on a fingerprint file that at the start is missing *)
(* or holds no record.                                                         *)

\* assistant messages. TextDone and TextDoneOther differ in the middle only: same
\* length, same first and last 64 characters.
TextDone == Text(200, "head-1", "tail-1", <<"done">>)

TextDoneOther == Text(200, "head-1", "tail-1", <<"other", "done">>)

TextDoneShort == Text(150, "head-2", "tail-2", <<"done">>)

TextDoneThird == Text(150, "head-3", "tail-2", <<"done">>)

TextMany == Text(180, "head-4", "tail-4", <<"other", "error", "done">>)

TextUnlisted == Text(40, "head-5", "head-5", <<"other">>)

ScanMessages == {TextDone, TextDoneOther, TextDoneShort, TextDoneThird, TextMany,
                 TextUnlisted}

\* a line of the transcript: whether JSON.parse accepts it, its role, its text
Line(parses, role, text) == [parses |-> parses, role |-> role, text |-> text]

Transcript(lines) == [hasPath |-> TRUE, exists |-> TRUE, lines |-> lines]

MissingTranscript == [hasPath |-> TRUE, exists |-> FALSE, lines |-> <<>>]

\* the assistant's last text lists error first; the user's later text carries done
TranscriptUserLast ==
    Transcript(<< Line(TRUE, "assistant", TextDone),
                  Line(TRUE, "assistant", TextMany),
                  Line(TRUE, "user", TextDoneShort),
                  Line(FALSE, "", EmptyText) >>)

\* valid markers only in the user's text and in an earlier assistant text
TranscriptOnlyEarlier ==
    Transcript(<< Line(TRUE, "assistant", TextDoneShort),
                  Line(TRUE, "user", TextDone),
                  Line(TRUE, "assistant", TextUnlisted),
                  Line(TRUE, "user", TextDoneThird) >>)

\* no assistant entry at all
TranscriptNoAssistant ==
    Transcript(<< Line(TRUE, "user", TextDone), Line(FALSE, "assistant", TextDone) >>)

\* with them a file of no lines, and one whose last assistant entry has content
\* without text while an earlier one carries done
ScanTranscripts ==
    {MissingTranscript, TranscriptUserLast, TranscriptOnlyEarlier, TranscriptNoAssistant,
     Transcript(<<>>),
     Transcript(<< Line(TRUE, "assistant", TextDone),
                   Line(TRUE, "assistant", EmptyText) >>)}

\* what the fingerprint file holds before the first call
ScanStamps == {<<>>, UnparseableStamp, ForeignStamp}

ScanFlagNames == {<<"done", "error">>, <<"error">>}

\* no scanForFlags call yet. Observation only: the text the latest call scanned
\* and what it returned, the same for the call before it, the record each found,
\* and the texts that have matched so far.
NoScanCall(validFlags) ==
    [op |-> "none", validFlags |-> validFlags, n |-> 0,
     message |-> EmptyText, transcript |-> NoTranscript,
     text |-> EmptyText, result |-> <<>>, stampBefore |-> <<>>,
     prevText |-> EmptyText, prevResult |-> <<>>, prevStampBefore |-> <<>>,
     firedBefore |-> {}, fired |-> {}, lastFiredBefore |-> <<>>, lastFired |-> <<>>]

InitScan ==
    /\ persona = PersonaPlain
    /\ now = 0
    /\ nagFile = [k \in Keys |-> <<>>]
    /\ worker = [c \in Campaigns |-> NoWorker]
    /\ spawned = 0
    /\ out = Idle
    /\ stamps = <<>>
    /\ flagStamp \in ScanStamps
    /\ \E validFlags \in ScanFlagNames : api = NoScanCall(validFlags)
    /\ hist = NoHist

\* scanForFlags(validFlags, lastAssistantMessage, transcriptPath)
ScanCall(lastAssistantMessage, transcript) ==
    LET scan == scanForFlags(api.validFlags, lastAssistantMessage, transcript, flagStamp)
        text == IF lastAssistantMessage.length > 0 THEN lastAssistantMessage
                ELSE extractLastAssistantText(transcript)
    IN /\ api.n < MaxScans
       /\ flagStamp' = scan.stamp
       /\ api' = [api EXCEPT
              !.op = "scanForFlags", !.n = @ + 1,
              !.message = lastAssistantMessage, !.transcript = transcript,
              !.text = text, !.result = scan.flag, !.stampBefore = flagStamp,
              !.prevText = api.text, !.prevResult = api.result,
              !.prevStampBefore = api.stampBefore,
              !.firedBefore = api.fired,
              !.fired = IF scan.flag # <<>> THEN api.fired \cup {text} ELSE api.fired,
              !.lastFiredBefore = api.lastFired,
              !.lastFired = IF scan.flag # <<>> THEN <<text>> ELSE api.lastFired]
       /\ UNCHANGED <<persona, now, nagFile, worker, spawned, out, stamps, hist>>

\* a call with the hook input's last_assistant_message
ScanMessage == \E message \in ScanMessages : ScanCall(message, NoTranscript)

\* a call without a message, with a transcript path
ScanTranscript == \E transcript \in ScanTranscripts : ScanCall(EmptyText, transcript)

\* a call with a message and with a transcript path
ScanBoth ==
    \E message \in {TextDoneShort, TextUnlisted} :
        \E transcript \in {MissingTranscript, TranscriptUserLast} :
            ScanCall(message, transcript)

NextScan ==
    \/ ScanMessage
    \/ ScanTranscript
    \/ ScanBoth

SpecScan == InitScan /\ [][NextScan]_vars

(* The exported functions on the files as they are found. The spam store is  *)
(* given by what it holds, a file system call on a state file may fail, and  *)
(* a call ends by returning or by throwing. In this specification stamps is *)
(* the store file with its kind, and api the latest call.                    *)

\* the store file: its kind and, for a list of instants, the instants
StoreFile(kind, list) == [kind |-> kind, list |-> list]

\* no file; a file of no bytes; text that JSON.parse rejects; JSON that is not an
\* array, such as {} or null; a JSON array whose entries are not numbers, so that
\* now - t is NaN for each; a JSON array of instants
StoreFiles == {StoreFile("missing", <<>>), StoreFile("empty", <<>>),
               StoreFile("unparseable", <<>>), StoreFile("not a list", <<>>),
               StoreFile("other list", <<>>), StoreFile("list", <<0>>)}

\* whether reading and writing (or unlinking) a state file fails in a call
IoCases == [readFails : BOOLEAN, writeFails : BOOLEAN]

\* getTimestamps: <<the array returned>>, or <<>> when what JSON.parse returned
\* is not an array. A missing file, a failing read and a failing parse give [].
getTimestamps(file, io) ==
    IF file.kind = "missing" THEN << <<>> >>
    ELSE IF io.readFails THEN << <<>> >>
    ELSE IF file.kind \in {"empty", "unparseable"} THEN << <<>> >>
    ELSE IF file.kind = "not a list" THEN <<>>
    ELSE << file.list >>

\* checkSpam on the file: whether it threw, what it returned, the file afterwards.
\* .filter of a value that is no array throws, and so does a failing write.
checkSpamIo(file, t, threshold, windowMs, io) ==
    LET got == getTimestamps(file, io) IN
    IF got = <<>> THEN [threw |-> TRUE, result |-> "none", file |-> file]
    ELSE IF io.writeFails THEN [threw |-> TRUE, result |-> "none", file |-> file]
    ELSE [threw |-> FALSE,
          result |-> IF checkSpam(got[1], t, threshold, windowMs) THEN "true" ELSE "false",
          file |-> StoreFile("list", checkSpamStamps(got[1], t, windowMs))]

\* scanForFlags on the file: a failing read in loadFlagStamp is caught, a failing
\* write in saveFlagStamp is not
scanForFlagsIo(validFlags, lastAssistantMessage, transcript, stamp, io) ==
    LET scan == scanForFlags(validFlags, lastAssistantMessage, transcript,
                             IF io.readFails THEN <<>> ELSE stamp)
    IN IF scan.flag = <<>> THEN [threw |-> FALSE, result |-> "null", stamp |-> stamp]
       ELSE IF io.writeFails THEN [threw |-> TRUE, result |-> "none", stamp |-> stamp]
       ELSE [threw |-> FALSE, result |-> scan.flag[1], stamp |-> scan.stamp]

\* startNagger on the files: the write of the state file is not guarded, and
\* nothing is forked when it throws
startNaggerIo(files, workers, n, key, soundPaths, timeouts, t, io) ==
    IF ~startNaggerActs(soundPaths, timeouts)
    THEN [threw |-> FALSE, files |-> files, workers |-> workers, forked |-> FALSE]
    ELSE IF io.writeFails
    THEN [threw |-> TRUE, files |-> files, workers |-> workers, forked |-> FALSE]
    ELSE [threw |-> FALSE,
          files |-> startNaggerFile(files, key, soundPaths, timeouts, t),
          workers |-> startNaggerFork(workers, n, key, soundPaths, timeouts, t),
          forked |-> TRUE]

\* cancelNagger on the files: a failing unlink is caught and leaves the file
cancelNaggerIo(files, key, io) ==
    IF files[key] # <<>> /\ io.writeFails
    THEN [threw |-> FALSE, files |-> files]
    ELSE [threw |-> FALSE, files |-> cancelNagger(files, key)]

\* no call yet. Observation only: n counts the calls; io, threw and result are
\* those of the latest call, before is the spam store it found, at its instant.
NoIoCall ==
    [op |-> "none", n |-> 0, io |-> [readFails |-> FALSE, writeFails |-> FALSE],
     threw |-> FALSE, result |-> "none", before |-> StoreFile("missing", <<>>),
     at |-> 0, threshold |-> 0]

InitIo ==
    /\ persona = PersonaPlain
    /\ now = 0
    /\ nagFile = [k \in Keys |-> <<>>]
    /\ worker = [c \in Campaigns |-> NoWorker]
    /\ spawned = 0
    /\ out = Idle
    /\ stamps \in StoreFiles
    /\ flagStamp \in ScanStamps
    /\ api = NoIoCall
    /\ hist = NoHist

\* checkSpam(threshold, windowMs)
CheckSpamIoCall(io) ==
    \E threshold \in 1..MaxCalls :
        LET call == checkSpamIo(stamps, now, threshold, MaxWindow, io) IN
        /\ api.n < MaxCalls
        /\ stamps' = call.file
        /\ api' = [op |-> "checkSpam", n |-> api.n + 1, io |-> io, threw |-> call.threw,
                   result |-> call.result, before |-> stamps, at |-> now,
                   threshold |-> threshold]
        /\ UNCHANGED <<persona, now, nagFile, worker, spawned, out, flagStamp, hist>>

\* scanForFlags(validFlags, lastAssistantMessage)
ScanIoCall(io) ==
    \E message \in {TextDone, TextUnlisted} :
        LET call == scanForFlagsIo(<<"done", "error">>, message, NoTranscript, flagStamp, io) IN
        /\ api.n < MaxCalls
        /\ flagStamp' = call.stamp
        /\ api' = [op |-> "scanForFlags", n |-> api.n + 1, io |-> io, threw |-> call.threw,
                   result |-> call.result, before |-> stamps, at |-> now, threshold |-> 0]
        /\ UNCHANGED <<persona, now, nagFile, worker, spawned, out, stamps, hist>>

\* startNagger(sessionId, soundPaths, timeouts)
StartNaggerIoCall(io) ==
    \E timeouts \in ApiTimeouts :
        LET call == startNaggerIo(nagFile, worker, spawned, "s1",
                                  SoundPaths(resolvePersonaDir("short"), <<"p1.mp3">>),
                                  timeouts, now, io)
        IN /\ api.n < MaxCalls
           /\ spawned < MaxCampaigns
           /\ nagFile' = call.files
           /\ worker' = call.workers
           /\ spawned' = IF call.forked THEN spawned + 1 ELSE spawned
           /\ api' = [op |-> "startNagger", n |-> api.n + 1, io |-> io,
                      threw |-> call.threw, result |-> "void", before |-> stamps,
                      at |-> now, threshold |-> 0]
           /\ UNCHANGED <<persona, now, out, stamps, flagStamp, hist>>

\* cancelNagger(sessionId)
CancelNaggerIoCall(io) ==
    LET call == cancelNaggerIo(nagFile, "s1", io) IN
    /\ api.n < MaxCalls
    /\ nagFile' = call.files
    /\ api' = [op |-> "cancelNagger", n |-> api.n + 1, io |-> io, threw |-> call.threw,
               result |-> "void", before |-> stamps, at |-> now, threshold |-> 0]
    /\ UNCHANGED <<persona, now, worker, spawned, out, stamps, flagStamp, hist>>

NextIo ==
    \/ \E io \in IoCases : CheckSpamIoCall(io)
    \/ \E io \in IoCases : ScanIoCall(io)
    \/ \E io \in IoCases : StartNaggerIoCall(io)
    \/ \E io \in IoCases : CancelNaggerIoCall(io)
    \/ SpamClockAdvance

SpecIo == InitIo /\ [][NextIo]_vars

(* Two handler processes at once. Each call of checkSpam or scanForFlags is  *)
(* synchronous in its own process, but the processes share the files with no *)
(* lock: the read of the file and the write of the file are two steps, and   *)
(* the other process may take its steps in between. In this specification    *)
(* api holds the two processes.                                              *)

Procs == {1, 2}

\* as saveTimestamps, but the instant is added to what the file holds by now
saveTimestamps_Merge(current, list) == Append(current, list[Len(list)])

\* saveTimestamps: the file after writeFileSync, whatever it held
saveTimestamps(current, list) == list

\* as scanResult, but a fingerprint that is in the file by now suppresses the flag
scanResult_Recheck(current, scan) ==
    IF current = scan.stamp THEN <<>> ELSE scan.flag

\* what scanForFlags returns after saveFlagStamp, whatever the file held
scanResult(current, scan) == scan.flag

\* a process that has made no call. pc is its position: idle, read (the file
\* is read, the write is to come), done. Observation only: readAt and wroteAt
\* are the numbers of writes to the file before its read and with its write.
NoProc ==
    [pc |-> "idle", op |-> "none", at |-> 0, text |-> EmptyText,
     read |-> <<>>, list |-> <<>>, stamp |-> <<>>, scan |-> [flag |-> <<>>, stamp |-> <<>>],
     result |-> "none", readAt |-> 0, wroteAt |-> 0]

InitRace ==
    /\ persona = PersonaPlain
    /\ now = 0
    /\ nagFile = [k \in Keys |-> <<>>]
    /\ worker = [c \in Campaigns |-> NoWorker]
    /\ spawned = 0
    /\ out = Idle
    /\ stamps \in SeedStores
    /\ flagStamp \in {<<>>, <<makeFingerprint(TextDoneShort)>>}
    /\ \E threshold \in 1..MaxPrompts :
           api = [proc |-> [p \in Procs |-> NoProc], threshold |-> threshold,
                  calls |-> 0, spamWrites |-> 0, flagWrites |-> 0]
    /\ hist = NoHist

\* checkSpam up to stamps.push(now): the file is read, the list is in memory
SpamRead(p) ==
    /\ api.proc[p].pc # "read"
    /\ api.calls < MaxCalls
    /\ api' = [api EXCEPT
           !.calls = @ + 1,
           !.proc[p] = [NoProc EXCEPT
               !.pc = "read", !.op = "checkSpam", !.at = now, !.read = stamps,
               !.list = checkSpamStamps(stamps, now, MaxWindow),
               !.readAt = api.spamWrites]]
    /\ UNCHANGED <<persona, now, nagFile, worker, spawned, out, stamps, flagStamp, hist>>

\* checkSpam from saveTimestamps(stamps) to its return
SpamWrite(p) ==
    /\ api.proc[p].pc = "read" /\ api.proc[p].op = "checkSpam"
    /\ stamps' = saveTimestamps(stamps, api.proc[p].list)
    /\ api' = [api EXCEPT
           !.spamWrites = @ + 1,
           !.proc[p].pc = "done",
           !.proc[p].result = IF Len(api.proc[p].list) >= api.threshold
                              THEN "true" ELSE "false",
           !.proc[p].wroteAt = api.spamWrites + 1]
    /\ UNCHANGED <<persona, now, nagFile, worker, spawned, out, flagStamp, hist>>

\* scanForFlags up to the comparison with the stored fingerprint
ScanRead(p) ==
    \E message \in {TextDone, TextDoneShort} :
        /\ api.proc[p].pc # "read"
        /\ api.calls < MaxCalls
        /\ api' = [api EXCEPT
               !.calls = @ + 1,
               !.proc[p] = [NoProc EXCEPT
                   !.pc = "read", !.op = "scanForFlags", !.at = now, !.text = message,
                   !.stamp = flagStamp,
                   !.scan = scanForFlags(<<"done", "error">>, message, NoTranscript, flagStamp),
                   !.readAt = api.flagWrites]]
        /\ UNCHANGED <<persona, now, nagFile, worker, spawned, out, stamps, flagStamp, hist>>

\* scanForFlags from the comparison to its return: a new match is saved
ScanWrite(p) ==
    LET scan == api.proc[p].scan
        result == IF scan.flag = <<>> THEN <<>> ELSE scanResult(flagStamp, scan)
    IN /\ api.proc[p].pc = "read" /\ api.proc[p].op = "scanForFlags"
       /\ flagStamp' = IF scan.flag = <<>> THEN flagStamp ELSE scan.stamp
       /\ api' = [api EXCEPT
              !.flagWrites = IF scan.flag = <<>> THEN @ ELSE @ + 1,
              !.proc[p].pc = "done",
              !.proc[p].result = IF result = <<>> THEN "null" ELSE result[1],
              !.proc[p].wroteAt = IF scan.flag = <<>> THEN api.proc[p].readAt
                                  ELSE api.flagWrites + 1]
       /\ UNCHANGED <<persona, now, nagFile, worker, spawned, out, stamps, hist>>

NextRace ==
    \/ \E p \in Procs : SpamRead(p)
    \/ \E p \in Procs : SpamWrite(p)
    \/ \E p \in Procs : ScanRead(p)
    \/ \E p \in Procs : ScanWrite(p)
    \/ SpamClockAdvance

SpecRace == InitRace /\ [][NextRace]_vars

---------------------------------------------------------------------------
(* Properties of the nagger *)

\* t1 + ... + tk
RECURSIVE SumTo(_, _)
SumTo(timeouts, k) == IF k = 0 THEN 0 ELSE SumTo(timeouts, k - 1) + timeouts[k]

\* C1: a campaign whose schedule of n timeouts sums to at most the 10-minute
\* window and that is never cancelled or restarted has its worker play exactly n
\* reminders, the k-th checked no earlier than t1+...+tk after the start, and the
\* state file is gone once the worker has finished.
C1_ExactlyNReminders ==
    \A c \in Campaigns :
        LET h == hist.camp[c]
            w == worker[c]
            n == Len(h.timeouts)
        IN (h.started /\ SumTo(h.timeouts, n) <= MAX_LIFETIME
                /\ ~h.cancelled /\ ~h.restarted)
           => /\ w.played <= n
              /\ w.pc \in {"checked", "playing"}
                     => w.checkAt >= h.startedAt + SumTo(h.timeouts, w.i)
              /\ w.pc = "done" => (w.played = n /\ nagFile[h.key] = <<>>)

\* C2: when the coordinator removed the state file of a campaign after the
\* worker's k-th reminder and before its next tick check, and no campaign was
\* started for that session afterwards, the worker has played exactly k reminders,
\* now and ever after.
C2_CancelStopsAtK ==
    \A c \in Campaigns :
        (hist.camp[c].cancelK >= 0 /\ ~hist.camp[c].restarted)
        => worker[c].played = hist.camp[c].cancelK

\* a campaign cancelled between its first and second tick, observed by its worker
C2_Witness ==
    \E c \in Campaigns :
        /\ hist.camp[c].cancelK = 1
        /\ ~hist.camp[c].restarted
        /\ worker[c].exit = "cancelled"
        /\ worker[c].played = 1

\* C3: the worker of a campaign that a permission notification superseded plays
\* no reminder after the new campaign has been started.
C3_NoReminderAfterSuperseded ==
    \A c \in Campaigns : ~worker[c].latePlay

\* C4: a worker whose tick check found the state file missing played nothing at
\* that tick, plays nothing afterwards and has terminated.
C4_NoPlayAfterMissing ==
    \A c \in Campaigns :
        worker[c].sawMissing >= 0
        => (worker[c].pc = "done" /\ worker[c].played = worker[c].sawMissing)

\* a worker that found the file missing at a tick after its first reminder
C4_Witness ==
    \E c \in Campaigns :
        /\ worker[c].sawMissing = 1
        /\ worker[c].exit = "cancelled"
        /\ hist.camp[c].cancelled

\* C5: a worker plays at most as many reminders as the timeouts list it read at
\* startup has entries.
C5_AtMostTicks ==
    \A c \in Campaigns : worker[c].played <= worker[c].ticks

\* a worker that played every tick of a two-entry schedule while the coordinator
\* started another campaign meanwhile
C5_Witness ==
    \E c \in Campaigns :
        /\ worker[c].ticks = 2
        /\ worker[c].played = 2
        /\ hist.camp[c].restarted

\* C6: a worker never plays at a tick checked later than startedAt + 10 minutes;
\* at the first such tick it exits, having played nothing more, cancelled or not.
C6_DeadlineBounds ==
    \A c \in Campaigns :
        LET w == worker[c] IN
        /\ w.pc \in {"checked", "playing"}
               => w.checkAt <= w.state[1].startedAt + MAX_LIFETIME
        /\ w.sawLate >= 0 => (w.pc = "done" /\ w.played = w.sawLate)

\* a worker, never cancelled, that reached a tick past its deadline after one reminder
C6_Witness ==
    \E c \in Campaigns :
        /\ worker[c].sawLate = 1
        /\ worker[c].exit = "deadline"
        /\ ~hist.camp[c].cancelled
        /\ nagFile[worker[c].statePath] # <<>>

\* C24: after a worker has stopped because its tick check came later than
\* startedAt + 10 minutes, no state file of its campaign remains.
C24_DeadlineExitDeletes ==
    \A c \in Campaigns :
        worker[c].exit = "deadline"
        => ~(hist.owner[worker[c].statePath] = c /\ nagFile[worker[c].statePath] # <<>>)

\* C25: the time a worker has spent sleeping during its campaign, the sum of the
\* intervals it has slept through, is at most the smaller of the sum of its
\* schedule and 10 minutes.
C25_SuspensionBounded ==
    \A c \in Campaigns :
        LET total == SumTo(hist.camp[c].timeouts, Len(hist.camp[c].timeouts))
        IN worker[c].slept <= (IF total < MAX_LIFETIME THEN total ELSE MAX_LIFETIME)

\* C26: the state file of a campaign is removed only by the coordinator's cancel
\* or by the campaign's own worker, and a campaign that the coordinator never
\* cancels, a superseding restart included, has played all its reminders when its
\* worker is done.
C26_UncancelledPlaysAll ==
    \A c \in Campaigns :
        LET h == hist.camp[c] IN
        h.started
        => /\ h.unlinkedBy \in {0, c}
           /\ (~h.cancelled /\ ~h.restarted /\ worker[c].pc = "done")
              => worker[c].played = Len(h.timeouts)

\* C27: of two campaigns of one session, the worker of the earlier one goes on to
\* play only at ticks it checked no later than the start of the later one.
C27_OnlyLatestWorkerPlays ==
    \A c, d \in Campaigns :
        (/\ c < d
         /\ hist.camp[c].started /\ hist.camp[d].started
         /\ hist.camp[c].key = hist.camp[d].key
         /\ worker[c].pc \in {"checked", "playing"})
        => worker[c].checkAt <= hist.camp[d].startedAt

\* C28: a step of a worker leaves every nag state file as it was, except that the
\* step that completes the playback of its last tick removes the file at the
\* worker's path.
C28_WorkerOnlyDeletes ==
    [][(worker' # worker /\ out' = out /\ api' = api)
       => \A k \in Keys :
              \/ nagFile'[k] = nagFile[k]
              \/ /\ nagFile'[k] = <<>>
                 /\ \E c \in Campaigns :
                        /\ worker[c].statePath = k
                        /\ worker[c].pc = "playing"
                        /\ worker[c].i = Len(worker[c].state[1].timeouts)
                        /\ worker'[c].exit = "completed"]_vars

\* a worker that played its two ticks and then removed the state file of its own
\* campaign
C28_Witness ==
    \E c \in Campaigns :
        /\ worker[c].exit = "completed" /\ worker[c].played = 2
        /\ hist.camp[c].unlinkedBy = c
        /\ nagFile[worker[c].statePath] = <<>>

\* C29: a call of cancelNagger returns with the session's state file absent: it
\* removes the file when it is there, changes nothing when it is not, and leaves
\* the files of other sessions alone; so it is after a second call in a row.
C29_CancelIsIdempotent ==
    [][(api' # api /\ api'.op = "cancelNagger")
       => /\ nagFile'[api'.key] = <<>>
          /\ \A k \in Keys : k # api'.key => nagFile'[k] = nagFile[k]
          /\ ~api'.existed => nagFile' = nagFile
          /\ worker' = worker /\ spawned' = spawned]_vars

\* cancelNagger called twice in a row for a session with no state file
C29_Witness ==
    /\ api.op = "cancelNagger" /\ api.prev = "cancelNagger"
    /\ api.prevKey = api.key
    /\ ~api.existed
    /\ nagFile[api.key] = <<>>

\* C30 as stated: a hook event for session id A leaves the nag state file of
\* every other session id B as it was, and a step of a worker changes no file but
\* the one at its own path.
C30_Original ==
    [][/\ (~out.active /\ out'.active)
          => \A B \in SessionIds :
                 B # out'.sid => nagFile'[SessionKey(B)] = nagFile[SessionKey(B)]
       /\ (worker' # worker /\ out' = out)
          => \A c \in Campaigns : \A k \in Keys :
                 (worker'[c] # worker[c] /\ k # worker[c].statePath)
                 => nagFile'[k] = nagFile[k]]_vars

\* C30: a hook event for session id A leaves the nag state file of every session
\* id B as it was when A and B name different files, an empty id naming the file
\* of "unknown"; and a step of a worker changes no file but the one at its own path.
C30_SessionsIndependent ==
    [][/\ (~out.active /\ out'.active)
          => \A B \in SessionIds :
                 (IF B = "" THEN "unknown" ELSE B)
                     # (IF out'.sid = "" THEN "unknown" ELSE out'.sid)
                 => nagFile'[SessionKey(B)] = nagFile[SessionKey(B)]
       /\ (worker' # worker /\ out' = out)
          => \A c \in Campaigns : \A k \in Keys :
                 (worker'[c] # worker[c] /\ k # worker[c].statePath)
                 => nagFile'[k] = nagFile[k]]_vars

\* a prompt of session s1 removed the state file of s1 while the one of the
\* session without an id stayed
C30_Witness ==
    /\ out.active /\ out.sid = "s1" /\ out.nagger = "cancelled"
    /\ \E c \in Campaigns : hist.camp[c].key = "s1" /\ hist.camp[c].cancelled
    /\ nagFile["s1"] = <<>>
    /\ nagFile["unknown"] # <<>>

\* C7: right after the resolver handled UserPromptSubmit or SessionEnd for a
\* session, with a permission_timeout situation configured, there is no nag state
\* file for that session.
C7_PromptOrEndCancels ==
    [][\A event \in {"UserPromptSubmit", "SessionEnd"} : \A sid \in SessionIds :
           (Resolver(event, "", sid) /\ hasPermissionTimeoutSituation(persona))
           => nagFile'[SessionKey(sid)] = <<>>]_vars

\* the resolver has just handled SessionEnd and thereby cancelled a campaign whose
\* worker is still alive
C7_Witness ==
    /\ out.active /\ out.loads /\ ~out.flags
    /\ out.event = "SessionEnd"
    /\ out.nagger = "cancelled"
    /\ nagFile[out.key] = <<>>
    /\ \E c \in Campaigns :
           /\ hist.camp[c].cancelled /\ ~hist.camp[c].restarted
           /\ hist.camp[c].key = out.key
           /\ Alive(worker[c])

\* C8: startNagger with an empty soundPaths list or an empty timeouts list leaves
\* every state file as it was and forks no worker.
C8_EmptyStartIsNoOp ==
    [][\A key \in Keys : \A soundPaths \in ApiSoundPaths : \A timeouts \in ApiTimeouts :
           (StartNaggerCall(key, soundPaths, timeouts)
                /\ (Len(soundPaths) = 0 \/ Len(timeouts) = 0))
           => (nagFile' = nagFile /\ worker' = worker /\ spawned' = spawned)]_vars

\* startNagger was just called with an empty list for a session whose state file
\* exists
C8_Witness ==
    /\ api.op = "startNagger"
    /\ Len(api.soundPaths) = 0 \/ Len(api.timeouts) = 0
    /\ nagFile[api.key] # <<>>
    /\ spawned = 1

\* the normal resolution of an event: one of the situations with that trigger (none
\* when there is none) and one of its sounds (none when it has none)
NormalResolution(o, config, event) ==
    LET candidates == getSituationsForTrigger(config, event) IN
    IF Len(candidates) = 0
    THEN o.mode = "none" /\ o.situation = "" /\ o.sound = <<>>
    ELSE \E i \in 1..Len(candidates) :
             /\ o.mode = "normal"
             /\ o.situation = candidates[i].name
             /\ IF Len(candidates[i].sounds) = 0 THEN o.sound = <<>>
                ELSE \E j \in 1..Len(candidates[i].sounds) :
                         o.sound = <<resolveSoundPath(resolvePersonaDir(config.name),
                                                      candidates[i].sounds[j])>>

\* C9 as stated: right after the resolver handled a permission-prompt Notification
\* with a permission_timeout situation configured, the session's state file exists
\* and the normal Notification situation was resolved.
C9_Original ==
    [][\A sid \in SessionIds :
           (Resolver("Notification", "permission_prompt", sid)
                /\ hasPermissionTimeoutSituation(persona))
           => /\ nagFile'[SessionKey(sid)] # <<>>
              /\ NormalResolution(out', persona, "Notification")]_vars

\* C9: right after the resolver handled a permission-prompt Notification with a
\* permission_timeout situation configured, the session's state file exists exactly
\* when the first permission_timeout situation has at least one sound and a
\* non-empty schedule, it then holds that schedule and the current start time, and
\* the normal Notification situation was resolved in either case.
C9_RestartsAndResolves ==
    [][\A sid \in SessionIds :
           (Resolver("Notification", "permission_prompt", sid)
                /\ hasPermissionTimeoutSituation(persona))
           => LET nagCfg == getSituationsForTrigger(persona, "permission_timeout")[1]
                  file == nagFile'[SessionKey(sid)]
              IN /\ IF Len(nagCfg.sounds) > 0 /\ Len(NagTimeouts(nagCfg)) > 0
                    THEN /\ file # <<>>
                         /\ file[1].timeouts = NagTimeouts(nagCfg)
                         /\ file[1].startedAt = now
                         /\ spawned' = spawned + 1
                    ELSE file = <<>> /\ spawned' = spawned
                 /\ NormalResolution(out', persona, "Notification")]_vars

\* the resolver has just restarted the nagger over an earlier campaign and handed
\* the Notification situation's sound to the player
C9_Witness ==
    /\ out.active /\ out.loads /\ ~out.flags
    /\ out.event = "Notification" /\ out.ntype = "permission_prompt"
    /\ out.nagger = "started"
    /\ nagFile[out.key] # <<>>
    /\ out.situation = "notification"
    /\ out.sound # <<>>
    /\ \E c \in Campaigns : hist.camp[c].superseded

\* C10: a Notification that is not a permission prompt leaves every nag state file
\* and every worker as it was and forks nothing, and the normal Notification
\* situation is resolved.
C10_OtherNotificationKeepsNagger ==
    [][\A sid \in SessionIds :
        \A ntype \in NotificationTypesOf("Notification") \ {"permission_prompt"} :
           Resolver("Notification", ntype, sid)
           => /\ nagFile' = nagFile
              /\ worker' = worker
              /\ spawned' = spawned
              /\ out'.nagger = "none"
              /\ NormalResolution(out', persona, "Notification")]_vars

\* the resolver has just handled an idle-prompt Notification while a campaign was
\* active, and resolved the Notification situation
C10_Witness ==
    /\ out.active /\ out.loads /\ ~out.flags
    /\ out.event = "Notification" /\ out.ntype = "idle_prompt"
    /\ nagFile[out.key] # <<>>
    /\ out.situation = "notification"
    /\ out.sound # <<>>
    /\ \E c \in Campaigns : Alive(worker[c]) /\ hist.owner[out.key] = c

---------------------------------------------------------------------------
(* Properties of the spam detector *)

\* C11: in a run of checkSpam(T, W) calls from an empty store, each call no earlier
\* than the one before and less than W after the first, every call before the T-th
\* returns false and the T-th returns true.
C11_ThresholdReached ==
    (api.op = "checkSpam" /\ api.inRun)
    => /\ api.n < api.threshold => ~api.result
       /\ api.n = api.threshold => api.result

\* the third call of such a run with threshold 3, made later than the first
C11_Witness ==
    /\ api.op = "checkSpam" /\ api.inRun
    /\ api.threshold = 3 /\ api.n = 3
    /\ api.at > api.first
    /\ api.result

\* C12: after a checkSpam call at instant now with window W the store holds the
\* previously stored instants t with now - W < t <= now, then now, and the call
\* returned whether that many instants reach the threshold.
C12_StoreIsWindow ==
    api.op = "checkSpam"
    => LET inWindow(t) == api.at - api.windowMs < t /\ t <= api.at
           kept == Append(SelectSeq(api.before, inWindow), api.at)
       IN /\ stamps = kept
          /\ api.result = (Len(kept) >= api.threshold)

\* C13: for a persona with a spam situation of threshold T and a plain
\* UserPromptSubmit situation, of the UserPromptSubmit events handled in normal
\* mode from an empty store, each within the window of the first, the first
\* T - 1 resolve a plain situation in mode normal and the T-th resolves a spam
\* situation in mode spam.
C13_ThresholdPromptIsSpam ==
    LET isSpam(x) == x.trigger = "spam"
        isPlain(x) == x.trigger = "UserPromptSubmit"
        spamSituations == SelectSeq(persona.situations, isSpam)
        plainSituations == SelectSeq(persona.situations, isPlain)
        T == IF spamSituations[1].hasSpamThreshold
             THEN spamSituations[1].spamThreshold ELSE DEFAULT_SPAM_THRESHOLD
        resolved(list) == \E i \in 1..Len(list) : list[i].name = out.situation
    IN (/\ out.active /\ out.loads /\ ~out.flags
        /\ out.event = "UserPromptSubmit"
        /\ Len(spamSituations) > 0 /\ Len(plainSituations) > 0
        /\ hist.prompts.inRun)
       => /\ hist.prompts.n < T => out.mode = "normal" /\ resolved(plainSituations)
          /\ hist.prompts.n = T => out.mode = "spam" /\ resolved(spamSituations)

\* the third prompt, later than the first and within its window, resolved a spam
\* situation
C13_Witness ==
    /\ out.active /\ out.loads /\ ~out.flags
    /\ out.event = "UserPromptSubmit"
    /\ persona = PersonaSpam
    /\ hist.prompts.n = 3 /\ hist.prompts.inRun
    /\ now > hist.prompts.first
    /\ out.mode = "spam"
    /\ Len(out.sound) = 1

---------------------------------------------------------------------------
(* Properties of the flag scanner *)

\* token is one of validFlags
IsValidFlag(token, validFlags) == \E j \in 1..Len(validFlags) : validFlags[j] = token

\* token is the token of the leftmost marker of text whose token is valid
IsLeftmostValid(token, text, validFlags) ==
    \E i \in 1..Len(text.markers) :
        /\ text.markers[i] = token
        /\ IsValidFlag(token, validFlags)
        /\ \A k \in 1..(i - 1) : ~IsValidFlag(text.markers[k], validFlags)

\* the two texts have the same length, first 64 and last 64 characters
SameEdges(a, b) == a.length = b.length /\ a.head = b.head /\ a.tail = b.tail

\* C14: of two consecutive scans of the same text, which carries a valid marker
\* and was not the stored record before the first scan, the first returns the flag
\* name and the second returns null.
C14_SecondScanIsNull ==
    (/\ api.op = "scanForFlags" /\ api.n >= 2
     /\ api.text = api.prevText
     /\ \E i \in 1..Len(api.text.markers) : IsValidFlag(api.text.markers[i], api.validFlags)
     /\ api.prevStampBefore = <<>>
            \/ api.prevStampBefore[1] # <<api.text.length, api.text.head, api.text.tail>>)
    => (api.prevResult # <<>> /\ api.result = <<>>)

\* the same message scanned twice in a row: done, then null
C14_Witness ==
    /\ api.op = "scanForFlags" /\ api.n >= 2
    /\ api.text = TextDone /\ api.prevText = TextDone
    /\ api.prevResult = <<"done">>
    /\ api.result = <<>>

\* C15: a scan right after a match, of a text whose fingerprint differs from the
\* matched one and whose leftmost valid marker carries the same token, returns
\* that flag again.
C15_NewContentMatches ==
    (/\ api.op = "scanForFlags" /\ api.n >= 2
     /\ api.prevResult # <<>>
     /\ ~SameEdges(api.text, api.prevText)
     /\ IsLeftmostValid(api.prevResult[1], api.text, api.validFlags))
    => api.result = api.prevResult

\* two messages of the same length and ending, with different beginnings, both
\* carrying done: both scans return done
C15_Witness ==
    /\ api.op = "scanForFlags" /\ api.n >= 2
    /\ api.prevText = TextDoneShort /\ api.text = TextDoneThird
    /\ api.prevResult = <<"done">>
    /\ api.result = <<"done">>

C17_LeftmostValidWins ==
    (api.op = "scanForFlags" /\ api.result # <<>>)
    => /\ IsValidFlag(api.result[1], api.validFlags)
       /\ IsLeftmostValid(api.result[1], api.text, api.validFlags)

\* a message with an unlisted marker, then error, then done: error is returned
C17_Witness ==
    /\ api.op = "scanForFlags"
    /\ api.validFlags = <<"done", "error">>
    /\ api.text = TextMany
    /\ api.result = <<"error">>

\* C18: a scan from a transcript matches only a marker of the most recent entry
\* that parses and whose role is assistant; without such an entry it returns null.
C18_OnlyLastAssistantEntry ==
    (api.op = "scanForFlags" /\ api.message.length = 0 /\ api.result # <<>>)
    => LET lines == api.transcript.lines
           entries == {i \in 1..Len(lines) : lines[i].parses /\ lines[i].role = "assistant"}
       IN /\ api.transcript.hasPath /\ api.transcript.exists
          /\ entries # {}
          /\ LET last == CHOOSE i \in entries : \A k \in entries : k <= i
             IN \E m \in 1..Len(lines[last].text.markers) :
                    lines[last].text.markers[m] = api.result[1]

\* a transcript whose valid markers are all in user entries and in an earlier
\* assistant entry: the scan returns null and leaves the record alone
C18_Witness ==
    /\ api.op = "scanForFlags" /\ api.n = 1
    /\ api.validFlags = <<"done", "error">>
    /\ api.transcript = TranscriptOnlyEarlier
    /\ api.result = <<>>
    /\ flagStamp = <<>>

\* C32: a scan that returns a flag leaves the fingerprint of the scanned text as
\* the stored record; a scan that returns null (no text, no valid flag, or the
\* stored fingerprint is that of the text) leaves the file exactly as it was.
C32_StampChangesOnlyOnMatch ==
    api.op = "scanForFlags"
    => /\ api.result # <<>>
              => flagStamp = << <<api.text.length, api.text.head, api.text.tail>> >>
       /\ api.result = <<>> => flagStamp = api.stampBefore

\* after a match of one message, a message without a valid flag is scanned: null,
\* and the record is still the fingerprint of the first message
C32_Witness ==
    /\ api.op = "scanForFlags" /\ api.n >= 2
    /\ api.text = TextUnlisted
    /\ api.result = <<>>
    /\ api.stampBefore = << <<200, "head-1", "tail-1">> >>
    /\ flagStamp = api.stampBefore

\* C33: a non-empty message is the text scanned, whatever the transcript holds;
\* the transcript is scanned only without a message, lines that do not parse
\* being skipped; without a text (no message, and the transcript missing, empty
\* or without assistant text) the scan returns null and leaves the record alone.
C33_MessageBeforeTranscript ==
    api.op = "scanForFlags"
    => LET lines == api.transcript.lines
           entries == {i \in 1..Len(lines) :
                          lines[i].parses /\ lines[i].role = "assistant"}
           scanned ==
               IF api.message.length > 0 THEN api.message
               ELSE IF api.transcript.hasPath /\ api.transcript.exists /\ entries # {}
               THEN lines[CHOOSE i \in entries : \A k \in entries : k <= i].text
               ELSE EmptyText
           valid == {i \in 1..Len(scanned.markers) :
                        IsValidFlag(scanned.markers[i], api.validFlags)}
           known == /\ Len(api.stampBefore) = 1
                    /\ api.stampBefore[1] = <<scanned.length, scanned.head, scanned.tail>>
       IN /\ (scanned.length = 0 \/ valid = {})
                 => (api.result = <<>> /\ flagStamp = api.stampBefore)
          /\ api.result # <<>> => IsLeftmostValid(api.result[1], scanned, api.validFlags)
          /\ (valid # {} /\ ~known) => api.result # <<>>

\* a message carrying done, given with a transcript whose last assistant entry
\* lists error first: done is returned
C33_Witness ==
    /\ api.op = "scanForFlags"
    /\ api.validFlags = <<"done", "error">>
    /\ api.message = TextDoneShort
    /\ api.transcript = TranscriptUserLast
    /\ api.result = <<"done">>

\* C34: a scan of a text with a valid flag, on a fingerprint file that is missing
\* or holds no record, returns the flag and leaves a well-formed record: the
\* fingerprint of the text.
C34_CorruptStampIsNoRecord ==
    (/\ api.op = "scanForFlags"
     /\ api.stampBefore \in {<<>>, UnparseableStamp, ForeignStamp}
     /\ \E i \in 1..Len(api.text.markers) : IsValidFlag(api.text.markers[i], api.validFlags))
    => /\ api.result # <<>>
       /\ flagStamp = << <<api.text.length, api.text.head, api.text.tail>> >>

\* the first scan finds a file JSON.parse rejects: done is returned, a record written
C34_Witness ==
    /\ api.op = "scanForFlags" /\ api.n = 1
    /\ api.stampBefore = UnparseableStamp
    /\ api.text = TextDone
    /\ api.result = <<"done">>
    /\ flagStamp = << <<200, "head-1", "tail-1">> >>

\* C35: two different texts of the same length, first 64 and last 64 characters
\* have the same fingerprint, and a scan of one right after a match of the other
\* returns null and leaves the record, whatever valid flag it carries.
C35_CollidingTextsDedup ==
    (/\ api.op = "scanForFlags" /\ api.n >= 2
     /\ api.prevResult # <<>>
     /\ api.text # api.prevText
     /\ SameEdges(api.text, api.prevText))
    => /\ makeFingerprint(api.text) = makeFingerprint(api.prevText)
       /\ api.result = <<>>
       /\ flagStamp = api.stampBefore

\* TextDone matched, then TextDoneOther, which differs in the middle and carries
\* done as well: null
C35_Witness ==
    /\ api.op = "scanForFlags" /\ api.n >= 2
    /\ api.prevText = TextDone /\ api.prevResult = <<"done">>
    /\ api.text = TextDoneOther
    /\ \E i \in 1..Len(api.text.markers) : IsValidFlag(api.text.markers[i], api.validFlags)
    /\ api.result = <<>>

---------------------------------------------------------------------------
(* Properties of the resolver *)

\* C19: every invocation of the resolver, in any mode, ends in one outcome: a
\* no-op, or one situation with one sound chosen from that situation's sounds;
\* never more than one sound is handed to playback.
C19_AtMostOneSound ==
    out.active
    => /\ Len(out.sound) <= 1
       /\ out.situation = "" => out.sound = <<>>
       /\ ~out.loads => out.sound = <<>>
       /\ out.sound # <<>>
          => \E i \in 1..Len(persona.situations) :
                 /\ persona.situations[i].name = out.situation
                 /\ \E j \in 1..Len(persona.situations[i].sounds) :
                        out.sound[1] = resolveSoundPath(resolvePersonaDir(persona.name),
                                                        persona.situations[i].sounds[j])

\* a flag situation with two sounds was resolved and one of them handed over
C19_Witness ==
    /\ out.active /\ out.flags
    /\ out.mode = "flag" /\ out.situation = "done"
    /\ persona = PersonaSpam
    /\ Len(out.sound) = 1

\* C20: in normal mode, when no situation has the event as its trigger and the
\* spam path was not taken, or when the chosen situation has no sounds, nothing
\* is handed to playback and the exit status is 0.
C20_NoSoundMeansNoPlayback ==
    LET triggered(x) == x.trigger = out.event
        named(x) == x.name = out.situation
        chosen == SelectSeq(persona.situations, named)
    IN (out.active /\ out.loads /\ ~out.flags)
       => /\ (out.mode # "spam" /\ Len(SelectSeq(persona.situations, triggered)) = 0)
             => out.situation = "" /\ out.sound = <<>> /\ out.code = 0
          /\ (Len(chosen) > 0 /\ Len(chosen[1].sounds) = 0)
             => out.sound = <<>> /\ out.code = 0

\* a SessionEnd for a persona that has situations, none for SessionEnd
C20_Witness ==
    /\ out.active /\ out.loads /\ ~out.flags
    /\ out.event = "SessionEnd"
    /\ persona = PersonaSpam
    /\ out.situation = "" /\ out.sound = <<>> /\ out.code = 0

\* C21: in normal mode the sound handed to playback is one of the sounds of the
\* situation that was chosen, a situation for the event or, in mode spam, a spam
\* situation; and before an invocation every sound of every situation for an
\* event that has no spam path is a possible outcome of that event.
C21_SoundOfChosenSituation ==
    LET dir == resolvePersonaDir(persona.name)
        listed(x, path) == \E j \in 1..Len(x.sounds) :
                               path = resolveSoundPath(dir, x.sounds[j])
        noSpamPath(event) ==
            \/ event # "UserPromptSubmit"
            \/ \A i \in 1..Len(persona.situations) : persona.situations[i].trigger # "spam"
    IN /\ (out.active /\ out.loads /\ ~out.flags /\ out.sound # <<>>)
          => \E i \in 1..Len(persona.situations) :
                 LET x == persona.situations[i] IN
                 /\ x.name = out.situation
                 /\ x.trigger = (IF out.mode = "spam" THEN "spam" ELSE out.event)
                 /\ listed(x, out.sound[1])
       /\ ~out.active
          => \A i \in 1..Len(persona.situations) :
                 LET x == persona.situations[i] IN
                 (x.trigger \in Events /\ noSpamPath(x.trigger))
                 => \A j \in 1..Len(x.sounds) :
                        \E ntype \in NotificationTypesOf(x.trigger) :
                            ENABLED (/\ Resolver(x.trigger, ntype, "s1")
                                     /\ out'.situation = x.name
                                     /\ out'.sound = <<resolveSoundPath(dir, x.sounds[j])>>)

\* a Stop resolved the Stop situation with sounds a.mp3 and b.mp3, and b.mp3,
\* the second of them, was handed to playback
C21_Witness ==
    /\ out.active /\ out.loads /\ ~out.flags
    /\ persona = PersonaStop
    /\ out.event = "Stop" /\ out.situation = "stop"
    /\ out.sound = <<resolveSoundPath(resolvePersonaDir("stop"), "b.mp3")>>

\* C22: an invocation whose --config argument is missing, whose active.json or
\* persona.json is missing or malformed, whose active.json names no persona, or
\* whose persona.json has no name or no or an empty situations array, hands
\* nothing to playback, exits with status 0 and leaves the spam store, the flag
\* fingerprint and the nag state files as they were.
C22_LoadFailureIsNoOp ==
    [][(/\ ~out.active /\ out'.active
        /\ LET c == out'.config IN
           \/ ~c.hasArg
           \/ ~c.active.exists \/ ~c.active.parses \/ ~c.active.hasPersona
           \/ ~c.personaFile.exists \/ ~c.personaFile.parses \/ ~c.personaFile.hasName
           \/ c.personaFile.situations \in {"missing", "empty"})
       => /\ ~out'.loads
          /\ out'.sound = <<>> /\ out'.situation = "" /\ out'.code = 0
          /\ stamps' = stamps /\ flagStamp' = flagStamp /\ nagFile' = nagFile
          /\ worker' = worker /\ spawned' = spawned]_vars

\* a persona.json with an empty situations array was met while the spam store,
\* the flag fingerprint and a nag state file were all in use
C22_Witness ==
    /\ out.active /\ ~out.loads
    /\ out.config.personaFile.situations = "empty"
    /\ out.event = "UserPromptSubmit"
    /\ stamps # <<>> /\ flagStamp # <<>>
    /\ \E k \in Keys : nagFile[k] # <<>>
    /\ out.sound = <<>> /\ out.code = 0

\* C23: every invocation of the handler, whatever its arguments, its stdin and
\* its configuration, whether a collaborator throws or the playback never
\* completes, eventually exits, and its exit status is always 0.
C23_AlwaysExitsWithZero ==
    /\ [](out.code = 0)
    /\ [](out.exit \in {"main", "catch", "timer"} => ~out.active)
    /\ (out.active ~> (~out.active /\ out.exit \in {"main", "catch", "timer"}))

\* a sound was handed to playback, main never got to its process.exit, and the
\* safety timer ended the process with status 0
C23_Witness ==
    /\ ~out.active /\ out.exit = "timer"
    /\ out.sound # <<>>
    /\ out.code = 0

\* C31: an invocation in flag scanning mode leaves the spam store, every nag
\* state file and the workers as they were, and runs no nagger step. Without a
\* flag situation in the configuration, or with neither a last assistant message
\* nor a transcript path, it plays nothing and leaves the fingerprint alone. What
\* it plays is one sound of the flag situation it names.
C31_FlagsModeFrame ==
    [][(~out.active /\ out'.active /\ out'.flags)
       => LET flagSituations ==
                  {i \in 1..Len(persona.situations) : persona.situations[i].trigger = "flag"}
          IN /\ stamps' = stamps /\ nagFile' = nagFile
             /\ worker' = worker /\ spawned' = spawned
             /\ out'.nagger = "none" /\ out'.mode \in {"none", "flag"} /\ out'.code = 0
             /\ (flagSituations = {} \/ (~out'.message /\ ~out'.transcriptPath))
                    => (out'.sound = <<>> /\ flagStamp' = flagStamp)
             /\ out'.sound # <<>>
                    => \E i \in flagSituations :
                           /\ persona.situations[i].name = out'.situation
                           /\ \E j \in 1..Len(persona.situations[i].sounds) :
                                  out'.sound = <<resolveSoundPath(
                                                     resolvePersonaDir(persona.name),
                                                     persona.situations[i].sounds[j])>>]_vars

\* a UserPromptSubmit hook handled in flag scanning mode played a sound of done
\* while a nag state file and a spam store were in place
C31_Witness ==
    /\ out.active /\ out.flags /\ out.event = "UserPromptSubmit"
    /\ out.mode = "flag" /\ out.situation = "done" /\ out.sound # <<>>
    /\ nagFile["s1"] # <<>>
    /\ stamps # <<>>

\* C40: before an invocation, every situation whose trigger is an event without
\* a spam path is a possible outcome of that event in normal mode, and when the
\* next UserPromptSubmit is spam, every spam situation is a possible outcome of
\* it: with several candidates the first in configuration order is not the only
\* one that can be chosen.
C40_EveryCandidatePossible ==
    LET spamIndexes == {i \in 1..Len(persona.situations) :
                           persona.situations[i].trigger = "spam"}
        noSpamPath(event) == event # "UserPromptSubmit" \/ spamIndexes = {}
        spamCfg == persona.situations[CHOOSE i \in spamIndexes :
                                          \A k \in spamIndexes : i <= k]
        threshold == IF spamCfg.hasSpamThreshold THEN spamCfg.spamThreshold
                     ELSE DEFAULT_SPAM_THRESHOLD
        windowMs == IF spamCfg.hasSpamWindowMs THEN spamCfg.spamWindowMs
                    ELSE DEFAULT_SPAM_WINDOW_MS
        inWindow == {k \in 1..Len(stamps) : now - stamps[k] < windowMs}
    IN ~out.active
       => /\ \A i \in 1..Len(persona.situations) :
                 LET x == persona.situations[i] IN
                 (x.trigger \in Events /\ noSpamPath(x.trigger))
                 => \E ntype \in NotificationTypesOf(x.trigger) :
                        ENABLED (/\ Resolver(x.trigger, ntype, "s1")
                                 /\ out'.mode = "normal"
                                 /\ out'.situation = x.name)
          /\ (spamIndexes # {} /\ Cardinality(inWindow) + 1 >= threshold)
                 => \A i \in spamIndexes :
                        ENABLED (/\ Resolver("UserPromptSubmit", "", "s1")
                                 /\ out'.mode = "spam"
                                 /\ out'.situation = persona.situations[i].name)

\* spam was detected and spam-2, the second spam situation of the configuration,
\* was the one chosen
C40_Witness ==
    /\ out.active /\ out.loads /\ ~out.flags
    /\ persona = PersonaSpam
    /\ out.event = "UserPromptSubmit"
    /\ out.mode = "spam" /\ out.situation = "spam-2"

---------------------------------------------------------------------------
(* Properties of the shared state files *)

\* C36: checkSpam does not throw whatever the store file holds. A store that is
\* missing, empty, unparseable, or parseable but not a list of instants counts
\* as the empty set: the call returns whether 1 reaches the threshold and leaves
\* the store holding the instant of the call alone.
C36_CheckSpamNeverThrows ==
    (/\ api.op = "checkSpam"
     /\ ~api.io.readFails /\ ~api.io.writeFails
     /\ api.before.kind # "list")
    => /\ ~api.threw
       /\ api.result = (IF 1 >= api.threshold THEN "true" ELSE "false")
       /\ stamps = StoreFile("list", <<api.at>>)

\* C37: a read or a write of a state file that fails is not propagated: the
\* call of checkSpam, scanForFlags, startNagger or cancelNagger does not throw.
\* The store of a checkSpam call is one that the call reads without failure.
C37_IoFailureNeverPropagates ==
    (/\ api.op # "none"
     /\ api.io.readFails \/ api.io.writeFails
     /\ api.op = "checkSpam" => api.before.kind # "not a list")
    => ~api.threw

\* C38: when two processes ran checkSpam and both read the store before either
\* wrote it, the store after both writes is the list of the later writer alone:
\* what that one read, filtered, and its own instant. The instant of the other
\* call is not added, and each call counts only what it read itself.
C38_LastWriterOverwrites ==
    \A p \in Procs : \A q \in Procs \ {p} :
        LET a == api.proc[p]
            b == api.proc[q]
            fresh(x) == a.at - x < MaxWindow
        IN (/\ a.op = "checkSpam" /\ a.pc = "done"
            /\ b.op = "checkSpam" /\ b.pc = "done"
            /\ a.readAt = b.readAt
            /\ a.wroteAt > b.wroteAt
            /\ api.spamWrites = a.wroteAt)
           => /\ stamps = Append(SelectSeq(a.read, fresh), a.at)
              /\ a.read = b.read
              /\ a.result = (IF Len(SelectSeq(a.read, fresh)) + 1 >= api.threshold
                               THEN "true" ELSE "false")

\* an empty store, threshold 2, two calls at the same instant that both read
\* before either wrote: the store holds one instant and neither reported spam
C38_Witness ==
    /\ api.threshold = 2 /\ api.calls = 2
    /\ \A p \in Procs :
           /\ api.proc[p].op = "checkSpam" /\ api.proc[p].pc = "done"
           /\ api.proc[p].read = <<>>
           /\ api.proc[p].at = 0
           /\ api.proc[p].result = "false"
    /\ now = 0
    /\ Len(stamps) = 1

\* C39: when two processes scanned the same text, which carries a valid flag
\* and is not the stored fingerprint, and both read the fingerprint file before
\* either wrote it, both scans return the flag. When the second read the file
\* after the write of the first, the second returns null.
C39_ConcurrentScansBothFire ==
    \A p \in Procs : \A q \in Procs \ {p} :
        LET a == api.proc[p]
            b == api.proc[q]
            fingerprint == <<a.text.length, a.text.head, a.text.tail>>
        IN (/\ a.op = "scanForFlags" /\ a.pc = "done"
            /\ b.op = "scanForFlags" /\ b.pc = "done"
            /\ a.text = b.text
            /\ \E i \in 1..Len(a.text.markers) :
                   IsValidFlag(a.text.markers[i], <<"done", "error">>)
            /\ a.stamp # <<fingerprint>>)
           => /\ a.readAt = b.readAt => (a.result # "null" /\ b.result = a.result)
              /\ b.readAt = a.wroteAt => (a.result # "null" /\ b.result = "null")

\* both processes scanned TextDone, both read the file before either wrote it,
\* and both returned done
C39_Witness ==
    /\ \A p \in Procs :
           /\ api.proc[p].op = "scanForFlags" /\ api.proc[p].pc = "done"
           /\ api.proc[p].text = TextDone
           /\ api.proc[p].readAt = 0
           /\ api.proc[p].result = "done"
    /\ api.flagWrites = 2

====
